---- MODULE Spec2Model ----
(***************************************************************************)
(* The text reduction, the web search helpers and the question runners of  *)
(* the GAIA benchmark scripts as state machines.                           *)
(*                                                                         *)
(* reduce_text of utils/summarize.py (specification Spec).  A Python str   *)
(* is a sequence of one-character strings.  One call of reduce_text runs   *)
(* from pc = "start" to pc = "done" (a string was returned) or             *)
(* pc = "raised" (an exception left the function).  The call is cut into   *)
(* steps at the places where it talks to the summarizer (ollama.chat):     *)
(* issuing a call and receiving its answer are separate steps, everything  *)
(* the code does in between belongs to the step.  The progress output      *)
(* (print, tqdm, the spinner loops) changes no data and is left out,       *)
(* except for the division in the header line 26, which can raise.         *)
(*                                                                         *)
(* WebSearcher.search of utils/search_capability.py (specification         *)
(* SearchSpec): one call, cut at the calls of the search backends.         *)
(*                                                                         *)
(* WebSearcher.get_instance called from several threads (SingletonSpec),   *)
(* search_web of search_capabilities.py (WebSpec), and the last resort of  *)
(* reduce_text as a function of text and budget (CutSpec).                 *)
(*                                                                         *)
(* summarize_text, which level1.py imports from utils/summarize.py, is not *)
(* defined there; ChunkSpec follows its description (Chunker, SPLIT and    *)
(* SUMMARIZE_EACH) with the arguments level1.py passes.                    *)
(*                                                                         *)
(* search_and_parse of utils/search_capability.py with its pool of fetch   *)
(* workers (ParseSpec); run_agent_on_dataset of                            *)
(* gaia_subset_benchmark/smolagents/naive_baseline.py (DatasetSpec); the   *)
(* process-wide tool tracking of smolagents/initial.py under two           *)
(* invocations of process_query (TrackSpec); and answer_gaia_questions of  *)
(* smolagents/smol_agents_baseline.py run repeatedly on one output_dir,    *)
(* with the files it leaves on disk (AnswerSpec).  UnansweredSpec is Spec  *)
(* with fairness for the interpreter's steps only.                         *)
(*                                                                         *)
(* Every specification runs one of the machines and leaves the variables   *)
(* of the others at rest.                                                  *)
(***************************************************************************)
EXTENDS Integers, Sequences, FiniteSets, TLC

\* ------------------------------------------------------------------ bounds
MaxTexts == 2
MaxTextLen == 4
MaxCtx == 8
MaxResults == 2
MaxRetries == 3
NumThreads == 2
MaxCalls == 2
MaxNumResults == 3
MaxRelated == 2
MaxElements == 3
MaxCutBudget == 10
MaxSourceLen == 6
MaxChunkSize == 3
MaxHits == 3
MaxQuestions == 3
MaxToolCalls == 2
MaxExamples == 2
MaxRuns == 2

\* ------------------------------------------------ strings and arithmetic
\* "\n\n---\n\n", the separator of both joins (lines 32 and 141).
Separator == <<"\n", "\n", "-", "-", "-", "\n", "\n">>

\* "...", the marker appended by every truncation (lines 120, 138, 208, 225).
Ellipsis == <<".", ".", ".">>

\* The reserve taken off max_context_size before the marker (lines 208, 225).
EllipsisReserve == 3

Min(a, b) == IF a <= b THEN a ELSE b
Max(a, b) == IF a >= b THEN a ELSE b

\* s[:k] of Python: a negative k counts from the end, out-of-range is clamped.
PySlice(s, k) ==
    IF k >= 0 THEN SubSeq(s, 1, Min(k, Len(s)))
    ELSE SubSeq(s, 1, Max(Len(s) + k, 0))

\* int(num / den) of Python for den > 0: truncation toward zero.
PyInt(num, den) ==
    IF num >= 0 THEN num \div den ELSE 0 - ((0 - num) \div den)

IsSpace(c) == c \in {" ", "\n", "\t"}

RECURSIVE LStrip(_)
LStrip(s) ==
    IF s = <<>> THEN <<>>
    ELSE IF IsSpace(Head(s)) THEN LStrip(Tail(s)) ELSE s

RECURSIVE RStrip(_)
RStrip(s) ==
    IF s = <<>> THEN <<>>
    ELSE IF IsSpace(s[Len(s)]) THEN RStrip(SubSeq(s, 1, Len(s) - 1)) ELSE s

\* str.strip(): leading and trailing whitespace removed, inner kept.
Strip(s) == RStrip(LStrip(s))

\* sep.join(list): the items with the separator between neighbours.
RECURSIVE Join(_)
Join(list) ==
    IF list = <<>> THEN <<>>
    ELSE IF Len(list) = 1 THEN list[1]
    ELSE list[1] \o Separator \o Join(Tail(list))

\* sum(len(text) for text in text_list), line 20.
RECURSIVE TotalLen(_)
TotalLen(list) ==
    IF list = <<>> THEN 0 ELSE Len(Head(list)) + TotalLen(Tail(list))

\* A variant that hands the whole budget to the summaries.
UnreservedTarget(len, total, max) == PyInt(len * max, total)

\* int(len(text) / total_input_len * max_context_size * 0.9), lines 36-38.
\* The float product is the exact quotient 9*len*max / (10*total) cut toward
\* zero; on budgets below 15 the float evaluation agrees with it.
RoundedUpTarget(len, total, max) ==
    PyInt(len * max * 9 + total * 10 - 1, total * 10)
IndividualTarget(len, total, max) == PyInt(len * max * 9, total * 10)

IndividualTargets(list, max) ==
    [k \in 1..Len(list) |-> IndividualTarget(Len(list[k]), TotalLen(list), max)]

\* total_input_len <= max_context_size, line 29.
FitsStrict(total, max) == total < max
Fits(total, max) == total <= max

\* concatenated[:max_context_size], lines 32-33.
Unsummarized(list, max) == PySlice(Join(list), max)

\* text[:target_length] + "...", lines 120 and 138.
FallbackUncut(text, target) == text \o Ellipsis
Fallback(text, target) == PySlice(text, target) \o Ellipsis

\* len(summary) > len(text), line 119.
SummaryTooLong(summary, text) == Len(summary) > Len(text)

\* s[:max_context_size - 3] + "...", lines 208 and 225.
NoReserveTruncate(s, max) == PySlice(s, max) \o Ellipsis
FinalTruncate(s, max) == PySlice(s, max - EllipsisReserve) \o Ellipsis

\* individual_summaries.append(x), lines 53, 122, 138.
Prepend(list, x) == <<x>> \o list
ListAppend(list, x) == Append(list, x)

\* The for loop of line 47 moves on to the next text.
SameIndex(k) == k
NextIndex(k) == k + 1

\* ------------------------------------------------------------------ inputs
\* Text k of a list is a prefix of row k: every position is recognisable.
Rows == << <<"a", "b", "c", "d", "e", "f", "g", "h">>,
           <<"p", "q", "r", "s", "t", "u", "v", "w">>,
           <<"i", "j", "k", "l", "m", "n", "o", "z">>,
           <<"A", "B", "C", "D", "E", "F", "G", "H">> >>

TextLists ==
    UNION { [1..n -> 0..MaxTextLen] : n \in 0..MaxTexts }

MakeTexts(lens) == [k \in DOMAIN lens |-> SubSeq(Rows[k], 1, lens[k])]

MinCtx == 0 - 1
CtxSizes == MinCtx..MaxCtx

\* What ollama.chat may answer.  The code looks at an answer only through
\* strip() and len(), so the answers tried are told apart by their length
\* after strip(): n characters with blanks inside, wrapped in whitespace.
Body(n) == [j \in 1..n |-> IF j = 1 \/ j = n THEN "S" ELSE " "]
Answer(n) == <<" ">> \o Body(n) \o <<"\n">>

\* Per text: an empty answer, one of exactly the requested length, and one
\* that is a character longer than the text (line 119).  The answer of the
\* requested length also comes with nothing around it.
SummaryAnswers(text, target) ==
    { Answer(n) : n \in {0, Max(target, 0), Len(text) + 1} }
        \cup { Body(Max(target, 0)) }

\* Final round: an empty answer, one that just fits the budget and one that
\* is a character over it (line 204).
FinalAnswers(max) ==
    { Answer(n) : n \in {0, Max(max, 0), Max(max, 0) + 1} }

\* ------------------------------------------------------------------- state
VARIABLES
    text_list,              \* argument: the texts
    max_context_size,       \* argument: the budget
    pc,                     \* where the call is
    i,                      \* 1-based position of the loop of line 47
    individual_targets,     \* line 38
    individual_summaries,   \* line 41
    result,                 \* the returned string, once pc = "done"
    error,                  \* the exception that escaped, once pc = "raised"
    outcome,                \* per processed text: the branch the loop took
    chat_log,               \* the ollama.chat calls made: k for text k, 0 for the final one
    final_outcome           \* the branch the final round took, "none" before it

reduce_vars == <<text_list, max_context_size, pc, i, individual_targets,
                 individual_summaries, result, error, outcome, chat_log,
                 final_outcome>>

\* WebSearcher.search(query, max_results, max_retries)
VARIABLES
    max_results,            \* argument
    max_retries,            \* argument
    search_pc,              \* where the call is
    attempt,                \* the loop variable of line 206
    method,                 \* 1-based position in search_methods, line 217
    called,                 \* the backends called so far, in order
    returned,               \* what each of them returned
    search_result           \* the returned list, once search_pc = "returned"

search_vars == <<max_results, max_retries, search_pc, attempt, method, called,
                 returned, search_result>>

\* WebSearcher.get_instance() called from several threads
VARIABLES
    instance,               \* WebSearcher._instance: 0 is None, else the object
    created,                \* the WebSearcher objects constructed so far
    thread_pc,              \* per thread: the line it is at, or "idle"
    fresh,                  \* per thread: the object it constructed at line 21
    got                     \* per thread: the objects its calls returned

singleton_vars == <<instance, created, thread_pc, fresh, got>>

\* search_web(query, num_results) of search_capabilities.py
VARIABLES
    num_results,            \* argument
    web_pc,                 \* where the call is
    duckduckgo_results,     \* line 21
    scraped_results,        \* line 28
    web_result              \* the returned list, once web_pc = "returned"

web_vars == <<num_results, web_pc, duckduckgo_results, scraped_results,
              web_result>>

\* The last resort of reduce_text on its own: lines 201-208 and 224-225
VARIABLES
    cut_text,               \* the text that may have to be cut
    cut_budget,             \* max_context_size
    cut_pc,                 \* "ready" or "returned"
    cut_branch,             \* the branch taken
    cut_result              \* the returned string

cut_vars == <<cut_text, cut_budget, cut_pc, cut_branch, cut_result>>

\* summarize_text(text, target_len, chunk_size, ...) as level1.py calls it
VARIABLES
    source_text,            \* argument text
    chunk_size,             \* argument
    chunk_pc,               \* where the call is
    chunks,                 \* the chunks the text was split into
    passed                  \* the texts handed to the summarizer, one per call

chunk_vars == <<source_text, chunk_size, chunk_pc, chunks, passed>>

VARIABLES
    search_results,         \* what searcher.search returned, in rank order
    parse_pc,               \* where the call is
    finished,               \* ranks of the fetches, in the order they ended
    segments,               \* per rank, what extract_content returned
    future_k,               \* position of the loop of line 277
    contents,               \* the list built by lines 276-281
    parsed_content          \* the returned parsed_content

parse_vars == <<search_results, parse_pc, finished, segments, future_k,
                contents, parsed_content>>

VARIABLES
    questions,              \* the questions that are processed, in dataset order
    max_questions,          \* argument: 0 stands for None
    dataset_pc,             \* where the call is
    question_i,             \* 1-based position of the loop of line 92
    agent_results,          \* the list `results` of line 88
    results_file,           \* agent_results.json
    answers_file            \* answers_for_submission.json

dataset_vars == <<questions, max_questions, dataset_pc, question_i,
                  agent_results, results_file, answers_file>>

VARIABLES
    tool_usage,             \* process-wide: calls started per tool
    execution_times,        \* process-wide: durations recorded per tool
    intermediate_outputs,   \* process-wide: tools that stored an output
    query_pc,               \* per invocation of process_query: where it is
    tool_call,              \* per invocation: the tool call under way
    made,                   \* per invocation: the calls it started, per tool
    stats                   \* per invocation: what get_performance_stats gave it

track_vars == <<tool_usage, execution_times, intermediate_outputs, query_pc,
                tool_call, made, stats>>

VARIABLES
    examples,               \* argument: the examples of the level, in order
    checkpoint_file,        \* on disk: checkpoint.json
    level_results_file,     \* on disk: <level>_results.json
    answer_pc,              \* where the process is, "stopped" when there is none
    completed_tasks,        \* in memory: completed_tasks[level_name]
    level_results,          \* in memory: level_results
    example_k,              \* 1-based position of the loop of line 134
    handling,               \* "try" in lines 194-235, "except" in lines 237-265
    added,                  \* records appended to level_results in this iteration
    ever_marked,            \* task ids some completed checkpoint write recorded
    runs                    \* number of runs started on the output_dir

answer_vars == <<examples, checkpoint_file, level_results_file, answer_pc,
                 completed_tasks, level_results, example_k, handling, added,
                 ever_marked, runs>>

\* The variables of the machines other than the one named.
outside_reduce == <<search_vars, singleton_vars, web_vars, cut_vars,
    chunk_vars, parse_vars, dataset_vars, track_vars, answer_vars>>
outside_search == <<reduce_vars, singleton_vars, web_vars, cut_vars,
    chunk_vars, parse_vars, dataset_vars, track_vars, answer_vars>>
outside_singleton == <<reduce_vars, search_vars, web_vars, cut_vars,
    chunk_vars, parse_vars, dataset_vars, track_vars, answer_vars>>
outside_web == <<reduce_vars, search_vars, singleton_vars, cut_vars,
    chunk_vars, parse_vars, dataset_vars, track_vars, answer_vars>>
outside_cut == <<reduce_vars, search_vars, singleton_vars, web_vars,
    chunk_vars, parse_vars, dataset_vars, track_vars, answer_vars>>
outside_chunk == <<reduce_vars, search_vars, singleton_vars, web_vars,
    cut_vars, parse_vars, dataset_vars, track_vars, answer_vars>>
outside_parse == <<reduce_vars, search_vars, singleton_vars, web_vars,
    cut_vars, chunk_vars, dataset_vars, track_vars, answer_vars>>
outside_dataset == <<reduce_vars, search_vars, singleton_vars, web_vars,
    cut_vars, chunk_vars, parse_vars, track_vars, answer_vars>>
outside_track == <<reduce_vars, search_vars, singleton_vars, web_vars,
    cut_vars, chunk_vars, parse_vars, dataset_vars, answer_vars>>
outside_answer == <<reduce_vars, search_vars, singleton_vars, web_vars,
    cut_vars, chunk_vars, parse_vars, dataset_vars, track_vars>>

vars == <<reduce_vars, outside_reduce>>

\* No call of reduce_text is under way.
ReduceAtRest ==
    /\ text_list = <<>>
    /\ max_context_size = 0
    /\ pc = "off"
    /\ i = 0
    /\ individual_targets = <<>>
    /\ individual_summaries = <<>>
    /\ result = <<>>
    /\ error = "none"
    /\ outcome = <<>>
    /\ chat_log = <<>>
    /\ final_outcome = "none"

\* No call of WebSearcher.search is under way.
SearchAtRest ==
    /\ max_results = 0
    /\ max_retries = 0
    /\ search_pc = "off"
    /\ attempt = 0
    /\ method = 0
    /\ called = <<>>
    /\ returned = <<>>
    /\ search_result = <<>>

\* No thread is in WebSearcher.get_instance.
SingletonAtRest ==
    /\ instance = 0
    /\ created = 0
    /\ thread_pc = <<>>
    /\ fresh = <<>>
    /\ got = <<>>

\* No call of search_web is under way.
WebAtRest ==
    /\ num_results = 0
    /\ web_pc = "off"
    /\ duckduckgo_results = <<>>
    /\ scraped_results = <<>>
    /\ web_result = <<>>

\* No last-resort cut is under way.
CutAtRest ==
    /\ cut_text = <<>>
    /\ cut_budget = 0
    /\ cut_pc = "off"
    /\ cut_branch = "none"
    /\ cut_result = <<>>

\* No call of summarize_text is under way.
ChunkAtRest ==
    /\ source_text = <<>>
    /\ chunk_size = 0
    /\ chunk_pc = "off"
    /\ chunks = <<>>
    /\ passed = <<>>

\* No call of search_and_parse is under way.
ParseAtRest ==
    /\ search_results = <<>>
    /\ parse_pc = "off"
    /\ finished = <<>>
    /\ segments = <<>>
    /\ future_k = 0
    /\ contents = <<>>
    /\ parsed_content = <<>>

\* No call of run_agent_on_dataset is under way.
DatasetAtRest ==
    /\ questions = <<>>
    /\ max_questions = 0
    /\ dataset_pc = "off"
    /\ question_i = 0
    /\ agent_results = <<>>
    /\ results_file = <<>>
    /\ answers_file = <<>>

\* No call of process_query is under way.
TrackAtRest ==
    /\ tool_usage = <<>>
    /\ execution_times = <<>>
    /\ intermediate_outputs = <<>>
    /\ query_pc = <<>>
    /\ tool_call = <<>>
    /\ made = <<>>
    /\ stats = <<>>

\* No run of answer_gaia_questions has been started.
AnswerAtRest ==
    /\ examples = <<>>
    /\ checkpoint_file = <<>>
    /\ level_results_file = <<>>
    /\ answer_pc = "off"
    /\ completed_tasks = {}
    /\ level_results = <<>>
    /\ example_k = 0
    /\ handling = "try"
    /\ added = 0
    /\ ever_marked = {}
    /\ runs = 0

\* Every machine but the one named is at rest.
OutsideReduceAtRest ==
    SearchAtRest /\ SingletonAtRest /\ WebAtRest /\ CutAtRest /\
    ChunkAtRest /\ ParseAtRest /\ DatasetAtRest /\ TrackAtRest /\
    AnswerAtRest
OutsideSearchAtRest ==
    ReduceAtRest /\ SingletonAtRest /\ WebAtRest /\ CutAtRest /\
    ChunkAtRest /\ ParseAtRest /\ DatasetAtRest /\ TrackAtRest /\
    AnswerAtRest
OutsideSingletonAtRest ==
    ReduceAtRest /\ SearchAtRest /\ WebAtRest /\ CutAtRest /\ ChunkAtRest /\
    ParseAtRest /\ DatasetAtRest /\ TrackAtRest /\ AnswerAtRest
OutsideWebAtRest ==
    ReduceAtRest /\ SearchAtRest /\ SingletonAtRest /\ CutAtRest /\
    ChunkAtRest /\ ParseAtRest /\ DatasetAtRest /\ TrackAtRest /\
    AnswerAtRest
OutsideCutAtRest ==
    ReduceAtRest /\ SearchAtRest /\ SingletonAtRest /\ WebAtRest /\
    ChunkAtRest /\ ParseAtRest /\ DatasetAtRest /\ TrackAtRest /\
    AnswerAtRest
OutsideChunkAtRest ==
    ReduceAtRest /\ SearchAtRest /\ SingletonAtRest /\ WebAtRest /\
    CutAtRest /\ ParseAtRest /\ DatasetAtRest /\ TrackAtRest /\ AnswerAtRest
OutsideParseAtRest ==
    ReduceAtRest /\ SearchAtRest /\ SingletonAtRest /\ WebAtRest /\
    CutAtRest /\ ChunkAtRest /\ DatasetAtRest /\ TrackAtRest /\ AnswerAtRest
OutsideDatasetAtRest ==
    ReduceAtRest /\ SearchAtRest /\ SingletonAtRest /\ WebAtRest /\
    CutAtRest /\ ChunkAtRest /\ ParseAtRest /\ TrackAtRest /\ AnswerAtRest
OutsideTrackAtRest ==
    ReduceAtRest /\ SearchAtRest /\ SingletonAtRest /\ WebAtRest /\
    CutAtRest /\ ChunkAtRest /\ ParseAtRest /\ DatasetAtRest /\ AnswerAtRest
OutsideAnswerAtRest ==
    ReduceAtRest /\ SearchAtRest /\ SingletonAtRest /\ WebAtRest /\
    CutAtRest /\ ChunkAtRest /\ ParseAtRest /\ DatasetAtRest /\ TrackAtRest

args == <<text_list, max_context_size>>

total_input_len == TotalLen(text_list)
concatenated_summaries == Join(individual_summaries)

Init ==
    /\ text_list \in { MakeTexts(lens) : lens \in TextLists }
    /\ max_context_size \in CtxSizes
    /\ pc = "start"
    /\ i = 0
    /\ individual_targets = <<>>
    /\ individual_summaries = <<>>
    /\ result = <<>>
    /\ error = "none"
    /\ outcome = <<>>
    /\ chat_log = <<>>
    /\ final_outcome = "none"
    /\ OutsideReduceAtRest

\* ----------------------------------------------------------------- actions
\* The argument show_progress is read only by the progress output, so it is
\* an input of the step that starts the call and not kept afterwards.
\* Lines 23-26 raise when show_progress divides by an empty total.
HeaderPasses(show_progress) == ~show_progress \/ total_input_len # 0

\* Lines 20-26: the header line divides by total_input_len.
HeaderRaises ==
    /\ pc = "start"
    /\ \E show_progress \in BOOLEAN : ~HeaderPasses(show_progress)
    /\ pc' = "raised"
    /\ error' = "ZeroDivisionError at line 26"
    /\ UNCHANGED <<args, i, individual_targets, individual_summaries, result,
                   outcome, chat_log, final_outcome>>
    /\ UNCHANGED outside_reduce

\* Lines 29-33: nothing to summarize.
ReturnUnsummarized ==
    /\ pc = "start"
    /\ \E show_progress \in BOOLEAN : HeaderPasses(show_progress)
    /\ Fits(total_input_len, max_context_size)
    /\ result' = Unsummarized(text_list, max_context_size)
    /\ pc' = "done"
    /\ UNCHANGED <<args, i, individual_targets, individual_summaries, error,
                   outcome, chat_log, final_outcome>>
    /\ UNCHANGED outside_reduce

\* Line 36: len(text) / total_input_len with an empty total.
ProportionsRaise ==
    /\ pc = "start"
    /\ \E show_progress \in BOOLEAN : HeaderPasses(show_progress)
    /\ ~Fits(total_input_len, max_context_size)
    /\ total_input_len = 0
    /\ text_list # <<>>
    /\ pc' = "raised"
    /\ error' = "ZeroDivisionError at line 36"
    /\ UNCHANGED <<args, i, individual_targets, individual_summaries, result,
                   outcome, chat_log, final_outcome>>
    /\ UNCHANGED outside_reduce

\* Lines 36-45: the targets, and the loop is entered.
PlanTargets ==
    /\ pc = "start"
    /\ \E show_progress \in BOOLEAN : HeaderPasses(show_progress)
    /\ ~Fits(total_input_len, max_context_size)
    /\ total_input_len # 0 \/ text_list = <<>>
    /\ individual_targets' = IndividualTargets(text_list, max_context_size)
    /\ i' = 1
    /\ pc' = "loop"
    /\ UNCHANGED <<args, individual_summaries, result, error, outcome, chat_log, final_outcome>>
    /\ UNCHANGED outside_reduce

\* Lines 52-57: a text already within its target is taken as it is.
SkipShort ==
    /\ pc = "loop"
    /\ i <= Len(text_list)
    /\ Len(text_list[i]) <= individual_targets[i]
    /\ individual_summaries' = ListAppend(individual_summaries, text_list[i])
    /\ outcome' = Append(outcome, "skipped")
    /\ i' = NextIndex(i)
    /\ UNCHANGED <<args, pc, individual_targets, result, error, chat_log, final_outcome>>
    /\ UNCHANGED outside_reduce

\* Lines 59-102: the summarizer is called for text i.
CallChat ==
    /\ pc = "loop"
    /\ i <= Len(text_list)
    /\ Len(text_list[i]) > individual_targets[i]
    /\ chat_log' = Append(chat_log, i)
    /\ pc' = "chat"
    /\ UNCHANGED <<args, i, individual_targets, individual_summaries, result,
                   error, outcome, final_outcome>>
    /\ UNCHANGED outside_reduce

\* Lines 116-122 on an answer `content`.
TakeSummary(content) ==
    LET summary == Strip(content)
        text == text_list[i]
        long == SummaryTooLong(summary, text)
        kept == IF long THEN Fallback(text, individual_targets[i]) ELSE summary
    IN /\ individual_summaries' = ListAppend(individual_summaries, kept)
       /\ outcome' = Append(outcome, IF long THEN "discarded" ELSE "kept")
       /\ i' = NextIndex(i)
       /\ pc' = "loop"
       /\ UNCHANGED <<args, individual_targets, result, error, chat_log, final_outcome>>

\* ollama.chat answered with some text.
ChatReturns ==
    /\ pc = "chat"
    /\ \E content \in SummaryAnswers(text_list[i], individual_targets[i]) :
           TakeSummary(content)
    /\ UNCHANGED outside_reduce

\* ollama.chat answered with the text it was given.
ChatEchoes ==
    /\ pc = "chat"
    /\ TakeSummary(text_list[i])
    /\ UNCHANGED outside_reduce

\* Lines 130-138: ollama.chat (or reading its answer) raised.
ChatRaises ==
    /\ pc = "chat"
    /\ individual_summaries' =
           ListAppend(individual_summaries,
                      Fallback(text_list[i], individual_targets[i]))
    /\ outcome' = Append(outcome, "failed")
    /\ i' = NextIndex(i)
    /\ pc' = "loop"
    /\ UNCHANGED <<args, individual_targets, result, error, chat_log, final_outcome>>
    /\ UNCHANGED outside_reduce

\* Lines 141-146: the joined summaries fit.
ReturnSummaries ==
    /\ pc = "loop"
    /\ i > Len(text_list)
    /\ Len(concatenated_summaries) <= max_context_size
    /\ result' = concatenated_summaries
    /\ pc' = "done"
    /\ UNCHANGED <<args, i, individual_targets, individual_summaries, error,
                   outcome, chat_log, final_outcome>>
    /\ UNCHANGED outside_reduce

\* A variant that sends the joined summaries to the summarizer twice.
CallFinalChatTwice ==
    /\ pc = "loop"
    /\ i > Len(text_list)
    /\ Len(concatenated_summaries) > max_context_size
    /\ chat_log' = chat_log \o <<0, 0>>
    /\ pc' = "final_chat"
    /\ UNCHANGED <<args, i, individual_targets, individual_summaries, result,
                   error, outcome, final_outcome>>
    /\ UNCHANGED outside_reduce

\* Lines 148-199: they do not, the summarizer is called once more.
CallFinalChat ==
    /\ pc = "loop"
    /\ i > Len(text_list)
    /\ Len(concatenated_summaries) > max_context_size
    /\ chat_log' = Append(chat_log, 0)
    /\ pc' = "final_chat"
    /\ UNCHANGED <<args, i, individual_targets, individual_summaries, result,
                   error, outcome, final_outcome>>
    /\ UNCHANGED outside_reduce

\* Lines 201-216 on an answer `content`.
TakeFinal(content) ==
    LET final_summary == Strip(content)
        long == Len(final_summary) > max_context_size
    IN /\ result' = IF long
                    THEN FinalTruncate(final_summary, max_context_size)
                    ELSE final_summary
       /\ final_outcome' = IF long THEN "truncated" ELSE "kept"
       /\ pc' = "done"
       /\ UNCHANGED <<args, i, individual_targets, individual_summaries, error,
                      outcome, chat_log>>

FinalReturns ==
    /\ pc = "final_chat"
    /\ \E content \in FinalAnswers(max_context_size) : TakeFinal(content)
    /\ UNCHANGED outside_reduce

FinalEchoes ==
    /\ pc = "final_chat"
    /\ TakeFinal(concatenated_summaries)
    /\ UNCHANGED outside_reduce

\* Lines 218-225: the final call raised.
FinalRaises ==
    /\ pc = "final_chat"
    /\ result' = FinalTruncate(concatenated_summaries, max_context_size)
    /\ pc' = "done"
    /\ final_outcome' = "failed"
    /\ UNCHANGED <<args, i, individual_targets, individual_summaries, error,
                   outcome, chat_log>>
    /\ UNCHANGED outside_reduce

Next ==
    \/ HeaderRaises
    \/ ReturnUnsummarized
    \/ ProportionsRaise
    \/ PlanTargets
    \/ SkipShort
    \/ CallChat
    \/ ChatReturns
    \/ ChatEchoes
    \/ ChatRaises
    \/ ReturnSummaries
    \/ CallFinalChat
    \/ FinalReturns
    \/ FinalEchoes
    \/ FinalRaises

Spec == Init /\ [][Next]_vars

\* The interpreter keeps executing the call, and every ollama.chat call that
\* was issued comes back with an answer or an exception.
FairSpec == Spec /\ WF_vars(Next)

Terminated == pc \in {"done", "raised"}

\* ------------------------------------------------------------ vocabulary
IsPrefix(p, s) == Len(p) <= Len(s) /\ SubSeq(s, 1, Len(p)) = p

Count(seq, x) == Cardinality({k \in 1..Len(seq) : seq[k] = x})

\* The raw concatenation: the input texts joined by the separator.
joined_inputs == Join(text_list)

FinalRoundMade == Count(chat_log, 0) > 0

\* The call has not stopped short of a return or a raise without a next step.
NotStuck == Terminated \/ ENABLED Next

\* The first n characters of text k followed by the marker.
CutWithMarker(k) ==
    SubSeq(text_list[k], 1, individual_targets[k]) \o <<".", ".", ".">>

\* ------------------------------------------------------------------- C1
\* C1: for a positive max_context_size the returned string is never longer
\* than max_context_size.
C1_BudgetInvariant ==
    (pc = "done" /\ max_context_size > 0) => Len(result) <= max_context_size

\* The budget does hold from max_context_size = 3 on, where the slice bound
\* max_context_size - 3 of lines 208 and 225 is not negative.
BudgetHeldFromReserve ==
    (pc = "done" /\ max_context_size >= EllipsisReserve)
        => Len(result) <= max_context_size

\* ------------------------------------------------------------------- C2
\* C2 as stated: when the lengths of the texts sum to at most
\* max_context_size, the returned string is the complete join of the texts
\* and no summarizer call was made.  Stated for positive budgets.
C2_ExactJoin ==
    (pc = "done" /\ max_context_size > 0
                 /\ total_input_len <= max_context_size)
        => (result = joined_inputs /\ chat_log = <<>>)

\* C2 as amended: when the lengths of the texts sum to at most
\* max_context_size, no summarizer call is made, and the returned string is
\* the join of the texts cut to its first max_context_size characters: the
\* complete join exactly when the join, separators included, fits.
C2_CutJoinWithoutCalls ==
    total_input_len <= max_context_size
        => /\ chat_log = <<>>
           /\ pc \in {"start", "done", "raised"}
           /\ pc = "done" =>
                /\ IsPrefix(result, joined_inputs)
                /\ Len(result) = Min(Len(joined_inputs), max_context_size)
                /\ (Len(joined_inputs) <= max_context_size
                        <=> result = joined_inputs)

\* Two texts whose join fits are returned whole.
C2_Witness ==
    /\ pc = "done"
    /\ total_input_len <= max_context_size
    /\ Len(text_list) = 2
    /\ total_input_len > 0
    /\ result = joined_inputs

\* ------------------------------------------------------------------- C3
\* C3: every call of reduce_text makes at most one summarizer call per text
\* and at most one final call (len(text_list) + 1 calls in all), always has
\* a next step until it has returned or raised, and after a final round
\* returns a string that fits or ends in the truncation marker.
C3_BoundedRounds ==
    /\ Len(chat_log) <= Len(text_list) + 1
    /\ \A k \in 0..Len(text_list) : Count(chat_log, k) <= 1
    /\ \A n \in 1..Len(chat_log) : chat_log[n] \in 0..Len(text_list)
    /\ NotStuck
    /\ chat_log # <<>> => pc # "raised"
    /\ (pc = "done" /\ FinalRoundMade)
           => \/ Len(result) <= max_context_size
              \/ /\ final_outcome \in {"truncated", "failed"}
                 /\ Len(result) >= Len(Ellipsis)
                 /\ SubSeq(result, Len(result) - 2, Len(result)) = <<".", ".", ".">>

\* Under FairSpec every call of reduce_text comes to an end.
EventuallyTerminated == <>Terminated

\* A call over two texts that used all three summarizer calls and returned.
C3_Witness ==
    /\ pc = "done"
    /\ max_context_size >= EllipsisReserve
    /\ Len(text_list) = 2
    /\ chat_log = <<1, 2, 0>>
    /\ final_outcome = "truncated"

\* ------------------------------------------------------------------- C4
\* C4: the returned string is never longer than the input texts joined by
\* the separator.  Stated for positive budgets.
C4_NonExpansion ==
    (pc = "done" /\ max_context_size > 0)
        => Len(result) <= Len(joined_inputs)

\* ------------------------------------------------------------------- C5
\* C5: no error escapes reduce_text: it never ends by raising.  Stated for
\* positive budgets.
C5_NeverRaises == max_context_size > 0 => pc # "raised"

\* ------------------------------------------------------------------- C6
\* C6: with zero input texts reduce_text returns the empty string, and no
\* round and no summarizer call is made.  Stated for positive budgets.
C6_EmptyInput ==
    (text_list = <<>> /\ max_context_size > 0)
        => /\ pc # "raised"
           /\ chat_log = <<>>
           /\ pc = "done" => result = <<>>

\* ------------------------------------------------------------------- C7
\* C7: when the summarizer call for a text fails, the entry for that text is
\* a truncation of it (its first target characters and the marker), no
\* error leaves the function, every remaining text still gets its entry,
\* and the call goes on to return.
C7_FailureIsLocal ==
    /\ \A k \in 1..Len(outcome) :
           outcome[k] = "failed"
               => /\ k <= Len(individual_summaries)
                  /\ individual_targets[k] \in 0..(Len(text_list[k]) - 1)
                  /\ individual_summaries[k] = CutWithMarker(k)
    /\ (\E k \in 1..Len(outcome) : outcome[k] = "failed")
           => /\ pc # "raised"
              /\ NotStuck
              /\ pc \in {"final_chat", "done"}
                     => /\ Len(outcome) = Len(text_list)
                        /\ Len(individual_summaries) = Len(text_list)

\* The call for the first of two texts failed, the second was summarized
\* and the call returned.
C7_Witness ==
    /\ pc = "done"
    /\ max_context_size >= EllipsisReserve
    /\ Len(text_list) = 2
    /\ outcome = <<"failed", "kept">>
    /\ Len(individual_summaries[1]) > Len(Ellipsis)
    /\ individual_summaries[2] # <<>>

\* ------------------------------------------------------------------- C8
\* Every summarizer call that was made has failed (and one was made).
AllCallsFailed ==
    /\ chat_log # <<>>
    /\ \A k \in 1..Len(outcome) : outcome[k] \in {"skipped", "failed"}
    /\ final_outcome \in {"none", "failed"}

\* A prefix of the raw concatenation, followed at most by the marker.
IsRawTruncation(r) ==
    \E n \in 0..Len(joined_inputs) :
        \/ r = SubSeq(joined_inputs, 1, n)
        \/ r = SubSeq(joined_inputs, 1, n) \o <<".", ".", ".">>

\* C8: when every summarizer call fails the returned string is within the
\* budget and is a straight truncation of the raw concatenation.  Stated
\* for budgets of at least the ellipsis reserve, where the overflow of C1
\* cannot occur.
C8_AllFailTruncatesRaw ==
    (pc = "done" /\ AllCallsFailed /\ max_context_size >= EllipsisReserve)
        => /\ Len(result) <= max_context_size
           /\ IsRawTruncation(result)

\* ------------------------------------------------------------------- C9
\* C9: a summary never expands its source: every entry put into
\* individual_summaries is no longer than the text it stands for.  Stated
\* for budgets of at least the ellipsis reserve.
C9_EntriesNoLongerThanSource ==
    max_context_size >= EllipsisReserve
        => \A k \in 1..Len(individual_summaries) :
               Len(individual_summaries[k]) <= Len(text_list[k])

\* The other half of C9, a result exactly as long as its text is discarded,
\* does not hold either: line 119 tests len(summary) > len(text).
EqualLengthSummaryDiscarded ==
    \A k \in 1..Len(individual_summaries) :
        outcome[k] = "kept"
            => Len(individual_summaries[k]) < Len(text_list[k])

\* ------------------------------------------------------------------ C10
\* The segments the output is made of: the raw texts when no summarization
\* is needed, the per-text summaries otherwise.
Segments ==
    IF total_input_len <= max_context_size THEN text_list
    ELSE individual_summaries

\* C10 as stated: the returned string consists of exactly one segment per
\* input text, in the order of text_list.  Stated for positive budgets.
C10_OutputHasOneSegmentPerText ==
    (pc = "done" /\ max_context_size > 0)
        => /\ Len(Segments) = Len(text_list)
           /\ result = Join(Segments)

\* Entry k of individual_summaries comes from text k.
FromText(k) ==
    /\ outcome[k] = "skipped" => individual_summaries[k] = text_list[k]
    /\ outcome[k] \in {"failed", "discarded"}
           => individual_summaries[k] = CutWithMarker(k)
    /\ outcome[k] = "kept"
           => Len(individual_summaries[k]) <= Len(text_list[k])

\* C10 as amended: the join that reduce_text builds has exactly one segment
\* per input text, in the order of text_list (the raw texts when no
\* summarization is needed, otherwise entry k made from text k).  The
\* returned string is that join only when the join fits max_context_size;
\* otherwise it is the join of the raw texts cut at max_context_size, or the
\* outcome of the final round, and segments may be cut or lost.
C10_JoinHasOneSegmentPerText ==
    /\ Len(individual_summaries) = Len(outcome)
    /\ pc \in {"loop", "chat"} => Len(individual_summaries) = i - 1
    /\ \A k \in 1..Len(individual_summaries) : FromText(k)
    /\ (pc = "done" /\ total_input_len <= max_context_size)
           => /\ IsPrefix(result, Join(text_list))
              /\ Len(Join(text_list)) <= max_context_size
                     => result = Join(text_list)
    /\ (pc \in {"final_chat", "done"} /\ total_input_len > max_context_size)
           => Len(individual_summaries) = Len(text_list)
    /\ (pc = "done" /\ total_input_len > max_context_size /\ ~FinalRoundMade)
           => result = Join(individual_summaries)

\* Two texts were summarized and the join of their two entries was returned.
C10_Witness ==
    /\ pc = "done"
    /\ total_input_len > max_context_size
    /\ Len(text_list) = 2
    /\ ~FinalRoundMade
    /\ outcome = <<"kept", "kept">>
    /\ result = individual_summaries[1] \o Separator \o individual_summaries[2]

\* ------------------------------------------------------------------ C11
\* Every entry made so far is the text it was made from, unchanged: the
\* summarizer has echoed every text it was given.
EchoedSoFar ==
    /\ Len(individual_summaries) = Len(text_list)
    /\ \A k \in 1..Len(text_list) :
           /\ outcome[k] \in {"skipped", "kept"}
           /\ individual_summaries[k] = text_list[k]

\* C11: when the summarizer returns every input unmodified and the texts are
\* together longer than a positive max_context_size, the final round is
\* truncated and the returned string is exactly max_context_size long.
C11_EchoGivesExactBudget ==
    [][(max_context_size > 0 /\ EchoedSoFar /\ FinalEchoes)
           => Len(result') = max_context_size]_vars

\* From max_context_size = 3 on the echoed final round does end at exactly
\* max_context_size characters.
EchoExactFromReserve ==
    [][(max_context_size >= EllipsisReserve /\ EchoedSoFar /\ FinalEchoes)
           => Len(result') = max_context_size]_vars

\* ------------------------------------------------------------------ C12
\* C12: a max_context_size that is not positive is rejected at once: no
\* call to ollama.chat is made and no result is returned.
C12_InvalidBudgetRejected ==
    max_context_size <= 0 => (chat_log = <<>> /\ pc # "done")

\* The part of C12 about the summarizer alone: no call to ollama.chat is
\* made under a max_context_size that is not positive.
NoCallOnInvalidBudget == max_context_size <= 0 => chat_log = <<>>

\* ------------------------------------------------------------------ C17
\* The calls of the first round, in the order they were made.
FirstRoundCalls == SelectSeq(chat_log, LAMBDA c : c # 0)

\* C17: when the texts are together longer than a positive max_context_size,
\* the first round calls ollama.chat once for every text, in the order of
\* text_list, and the returned string is not longer than max_context_size.
C17_EveryTextSummarizedInOrder ==
    (max_context_size > 0 /\ total_input_len > max_context_size)
        => /\ pc \in {"final_chat", "done"}
                  => FirstRoundCalls = [k \in 1..Len(text_list) |-> k]
           /\ pc = "done" => Len(result) <= max_context_size

\* What does hold of the first round: the texts that are not empty are the
\* ones summarized, each once and in the order of text_list.
NonEmptyTextsSummarizedInOrder ==
    (max_context_size > 0 /\ total_input_len > max_context_size
        /\ pc \in {"final_chat", "done"})
        => /\ \A k \in 1..Len(text_list) :
                  Count(FirstRoundCalls, k) = IF text_list[k] = <<>> THEN 0 ELSE 1
           /\ \A a, b \in 1..Len(FirstRoundCalls) :
                  a < b => FirstRoundCalls[a] < FirstRoundCalls[b]

\* ------------------------------------------------------------------ C18
\* C18: under a positive max_context_size every text that is not empty gets
\* a target of at least one character.
C18_TargetFloor ==
    max_context_size > 0
        => \A k \in 1..Len(individual_targets) :
               text_list[k] # <<>> => individual_targets[k] >= 1

\* ------------------------------------------------------------------ C19
RECURSIVE SumSeq(_)
SumSeq(seq) == IF seq = <<>> THEN 0 ELSE Head(seq) + SumSeq(Tail(seq))

\* C19: within one call a longer text never gets a smaller target than a
\* shorter one, and the targets sum to at most max_context_size.  Stated for
\* budgets that are not negative.
C19_ProportionalTargets ==
    (max_context_size >= 0 /\ pc # "start")
        => /\ Len(individual_targets) \in {0, Len(text_list)}
           /\ \A j, k \in 1..Len(individual_targets) :
                  Len(text_list[j]) >= Len(text_list[k])
                      => individual_targets[j] >= individual_targets[k]
           /\ SumSeq(individual_targets) <= max_context_size

\* Two texts of different lengths got different targets that are not zero.
C19_Witness ==
    /\ pc = "done"
    /\ max_context_size > 0
    /\ Len(individual_targets) = 2
    /\ Len(text_list[1]) < Len(text_list[2])
    /\ 0 < individual_targets[1]
    /\ individual_targets[1] < individual_targets[2]

\* ------------------------------------------------------------------ C21
\* The steps the interpreter takes by itself.  The remaining steps of Next
\* are the answer of ollama.chat, which lines 99-102 and 196-199 call with no
\* timeout argument and wait for.
OwnStep ==
    \/ HeaderRaises
    \/ ReturnUnsummarized
    \/ ProportionsRaise
    \/ PlanTargets
    \/ SkipShort
    \/ CallChat
    \/ ReturnSummaries
    \/ CallFinalChat

\* The interpreter keeps executing the call; nothing makes the summarizer
\* answer.
UnansweredSpec == Spec /\ WF_vars(OwnStep)

CallPending == pc \in {"chat", "final_chat"}

\* C21: a summarizer call that does not respond is timed out and treated as
\* a failure of that text, so that reduce_text returns in the end even when a
\* summarizer call never answers.
C21_PendingCallIsTimedOut == CallPending ~> Terminated

\* ------------------------------------------------------------------ C23
\* The loop of lines 47-138 has gone through every text.
RoundOver == i > Len(text_list)

JoinedFits == Len(Join(individual_summaries)) <= max_context_size

\* C23: once the per-text round is over, joined summaries within
\* max_context_size are returned as they are and no further call is issued;
\* joined summaries beyond it lead to exactly one more call, the one logged as
\* 0, which is made on the joined summaries as a single text and is the last
\* call of the run.
C23_JoinReturnedOrOneFinalCall ==
    RoundOver =>
        IF JoinedFits
        THEN /\ Count(chat_log, 0) = 0
             /\ pc \in {"loop", "done"}
             /\ pc = "loop" => (ENABLED ReturnSummaries /\ ~ENABLED CallFinalChat)
             /\ pc = "done" => result = Join(individual_summaries)
        ELSE /\ pc \in {"loop", "final_chat", "done"}
             /\ pc = "loop" =>
                    /\ Count(chat_log, 0) = 0
                    /\ ENABLED CallFinalChat
                    /\ ~ENABLED ReturnSummaries
             /\ pc # "loop" =>
                    /\ Count(chat_log, 0) = 1
                    /\ chat_log[Len(chat_log)] = 0

\* Two texts were summarized, their join was too long, and the call ended
\* after the one further call.
C23_Witness ==
    /\ pc = "done"
    /\ RoundOver
    /\ Len(text_list) = 2
    /\ ~JoinedFits
    /\ chat_log = <<1, 2, 0>>

\* Two texts were summarized and their join was returned.
C23_JoinReturned ==
    /\ pc = "done"
    /\ RoundOver
    /\ JoinedFits
    /\ chat_log = <<1, 2>>
    /\ result = Join(individual_summaries)

\* ------------------------------------------------------------------ C29
\* The round is over and every text was either short enough to be taken as
\* it is or summarized by an answer no longer than its target.
TargetsMet ==
    /\ RoundOver
    /\ Len(individual_summaries) = Len(text_list)
    /\ \A k \in 1..Len(text_list) :
           /\ outcome[k] \in {"kept", "skipped"}
           /\ Len(individual_summaries[k]) <= individual_targets[k]

SummariesLen == TotalLen(individual_summaries)
SeparatorsLen == Len(Separator) * Max(Len(individual_summaries) - 1, 0)

\* C29: when every summarizer call of the round returns a string no longer
\* than its target, the joined summaries fit within max_context_size and the
\* call returns without a final summarization.
C29_TargetsMetJoinFits ==
    TargetsMet => (JoinedFits /\ ~FinalRoundMade /\ pc \in {"loop", "done"})

\* C29 as amended: when the targets are met the summaries add up to at most
\* 90% of a budget that is not negative, not counting separators.  The join
\* puts a separator of 7 characters between two summaries, and the call
\* returns without a final summarization exactly when summaries and
\* separators together are within max_context_size.
C29_TargetsMetSumWithinReserve ==
    TargetsMet =>
        /\ SummariesLen * 10 <= Max(max_context_size * 9, 0)
        /\ Len(Separator) = 7
        /\ pc \in {"final_chat", "done"} =>
               (~FinalRoundMade <=> SummariesLen + SeparatorsLen <= max_context_size)
        /\ (pc = "done" /\ ~FinalRoundMade) => result = Join(individual_summaries)

\* Two texts were summarized within their targets, which were not zero, and
\* the join with its separator was over the budget.
C29_Witness ==
    /\ TargetsMet
    /\ pc = "done"
    /\ chat_log = <<1, 2, 0>>
    /\ \A k \in 1..2 : Len(individual_summaries[k]) = individual_targets[k]
    /\ \A k \in 1..2 : individual_targets[k] > 0
    /\ SummariesLen <= max_context_size
    /\ SummariesLen + SeparatorsLen > max_context_size

\* One text was summarized within its target and returned without a final
\* summarization.
C29_ReturnedWithoutFinal ==
    /\ TargetsMet
    /\ pc = "done"
    /\ chat_log = <<1>>
    /\ SummariesLen > 0

\* ===================================================== WebSearcher.search
\* A Python value that is None or a list: <<>> is None, <<l>> is the list l.
None == <<>>
Some(list) == <<list>>

\* search_methods, lines 199-204.
search_methods == <<"search_with_ddgs", "search_with_googlesearch",
                    "search_with_selenium", "search_with_serpapi">>

\* n results made by backend m.
Items(m, n) == [j \in 1..n |-> <<search_methods[m], j>>]

\* What the library behind a backend may do: raise, answer with a list of n
\* results, answer with a generator of n results (older DDGS), or answer
\* without the key "organic_results" (SerpAPI).
Replies(m, max) ==
    {[kind |-> "raise", n |-> 0]}
        \cup {[kind |-> "list", n |-> n] : n \in 0..max}
        \cup (IF m = 1 THEN {[kind |-> "generator", n |-> 0]} ELSE {})
        \cup (IF m = 4 THEN {[kind |-> "missing", n |-> 0]} ELSE {})

\* Every search_with_* method has its whole body in try/except Exception
\* (lines 34/68, 74/86, 93/145, 151/180).
Guarded(m) == TRUE

\* An exception leaves method m.
Escapes(m, reply) == reply.kind = "raise" /\ ~Guarded(m)

\* The value method m returns on a reply of its library.
\*   search_with_ddgs, lines 81-88: None unless the results are truthy.
\*   search_with_googlesearch, lines 41-70: the list built, or None.
\*   search_with_selenium, lines 108-147: the list built, or None.
\*   search_with_serpapi, lines 167-182: the formatted list, or None.
MethodReturn(m, reply, max) ==
    IF reply.kind \in {"raise", "missing"} THEN None
    ELSE IF m = 1 /\ reply.kind = "list" /\ reply.n = 0 THEN None
    ELSE Some(Items(m, Min(reply.n, max)))

\* "if results:", line 219.
NotNone(value) == value # None
Truthy(value) == value # None /\ value[1] # <<>>

\* The next (attempt, method) of the loops of lines 206 and 217.
NextMethod == IF method < Len(search_methods) THEN method + 1 ELSE 1
NextAttempt == IF method < Len(search_methods) THEN attempt ELSE attempt + 1

\* search(query, max_results, max_retries) was called.
SearchInit ==
    /\ max_results \in 1..MaxResults
    /\ max_retries \in 0..MaxRetries
    /\ search_pc = "loop"
    /\ attempt = 0
    /\ method = 1
    /\ called = <<>>
    /\ returned = <<>>
    /\ search_result = <<>>
    /\ OutsideSearchAtRest

\* Line 218: the next method is called.
MethodCall ==
    /\ search_pc = "loop"
    /\ attempt < max_retries
    /\ called' = Append(called, search_methods[method])
    /\ search_pc' = "method"
    /\ UNCHANGED <<max_results, max_retries, attempt, method, returned,
                   search_result>>
    /\ UNCHANGED outside_search

\* Lines 218-223: the method comes back.  Truthy results are returned at
\* once; otherwise the loops move on.
MethodDone(reply) ==
    LET results == MethodReturn(method, reply, max_results) IN
    /\ returned' = Append(returned, results)
    /\ IF Escapes(method, reply)
       THEN /\ search_pc' = "raised"
            /\ UNCHANGED <<attempt, method, search_result>>
       ELSE IF Truthy(results)
       THEN /\ search_pc' = "returned"
            /\ search_result' = results[1]
            /\ UNCHANGED <<attempt, method>>
       ELSE /\ search_pc' = "loop"
            /\ method' = NextMethod
            /\ attempt' = NextAttempt
            /\ UNCHANGED search_result
    /\ UNCHANGED <<max_results, max_retries, called>>
    /\ UNCHANGED outside_search

MethodAnswers ==
    /\ search_pc = "method"
    /\ \E reply \in Replies(method, max_results) :
           reply.kind # "raise" /\ MethodDone(reply)

\* The library behind the method raised.
MethodFails ==
    /\ search_pc = "method"
    /\ MethodDone([kind |-> "raise", n |-> 0])

\* Lines 225-226: every attempt is used up.
SearchGivesUp ==
    /\ search_pc = "loop"
    /\ attempt >= max_retries
    /\ search_result' = <<>>
    /\ search_pc' = "returned"
    /\ UNCHANGED <<max_results, max_retries, attempt, method, called, returned>>
    /\ UNCHANGED outside_search

SearchNext ==
    \/ MethodCall
    \/ MethodAnswers
    \/ MethodFails
    \/ SearchGivesUp

SearchSpec == SearchInit /\ [][SearchNext]_vars

\* ------------------------------------------------------------------ C14
\* The backends in the order of search_methods, over and over.
InOrder(j) == search_methods[((j - 1) % Len(search_methods)) + 1]

\* A returned value that is a list with something in it.
NonEmptyList(value) == value # None /\ Len(value[1]) > 0

\* C14: search calls the backends in the order DDGS, googlesearch, Selenium,
\* SerpAPI within each attempt; it returns the first result list that is not
\* empty and calls no backend after it; it returns the empty list only after
\* every backend returned nothing in each of the max_retries attempts; it
\* never raises.
C14_FallbackOrder ==
    /\ \A j \in 1..Len(called) : called[j] = InOrder(j)
    /\ Len(called) <= Len(search_methods) * max_retries
    /\ Len(returned) = IF search_pc = "method" THEN Len(called) - 1
                       ELSE Len(called)
    /\ \A j \in 1..Len(returned) :
           NonEmptyList(returned[j]) => (j = Len(called) /\ search_pc = "returned")
    /\ (search_pc = "returned" /\ search_result # <<>>)
           => /\ returned # <<>>
              /\ returned[Len(returned)] = Some(search_result)
    /\ (search_pc = "returned" /\ search_result = <<>>)
           => /\ Len(called) = Len(search_methods) * max_retries
              /\ \A j \in 1..Len(returned) : ~NonEmptyList(returned[j])
    /\ search_pc # "raised"

\* Selenium found something in the second attempt, after six calls that
\* found nothing.
C14_Witness ==
    /\ search_pc = "returned"
    /\ Len(called) = 7
    /\ called[7] = "search_with_selenium"
    /\ search_result = Items(3, 2)

\* Every backend found nothing in each of three attempts.
C14_GaveUp ==
    /\ search_pc = "returned"
    /\ max_retries = 3
    /\ search_result = <<>>
    /\ Len(called) = 12

\* ============================================== WebSearcher.get_instance
\* The callers: threads running extract_content (line 233) or
\* search_and_parse (line 259), each calling get_instance up to MaxCalls
\* times.  A thread can be switched out between any two of the steps.
Threads == 1..NumThreads

SingletonInit ==
    /\ instance = 0
    /\ created = 0
    /\ thread_pc = [t \in Threads |-> "idle"]
    /\ fresh = [t \in Threads |-> 0]
    /\ got = [t \in Threads |-> <<>>]
    /\ OutsideSingletonAtRest

\* Line 20: "if cls._instance is None".
CheckInstance(t) ==
    /\ thread_pc[t] = "idle"
    /\ Len(got[t]) < MaxCalls
    /\ thread_pc' = [thread_pc EXCEPT ![t] =
                         IF instance = 0 THEN "line 21: cls()"
                         ELSE "line 22"]
    /\ UNCHANGED <<instance, created, fresh, got>>
    /\ UNCHANGED outside_singleton

\* Line 21, right-hand side: cls() constructs a WebSearcher.
Construct(t) ==
    /\ thread_pc[t] = "line 21: cls()"
    /\ created' = created + 1
    /\ fresh' = [fresh EXCEPT ![t] = created + 1]
    /\ thread_pc' = [thread_pc EXCEPT ![t] = "line 21: store"]
    /\ UNCHANGED <<instance, got>>
    /\ UNCHANGED outside_singleton

\* Line 21, assignment: cls._instance = the new object.
StoreInstance(t) ==
    /\ thread_pc[t] = "line 21: store"
    /\ instance' = fresh[t]
    /\ thread_pc' = [thread_pc EXCEPT ![t] = "line 22"]
    /\ UNCHANGED <<created, fresh, got>>
    /\ UNCHANGED outside_singleton

\* Line 22: "return cls._instance" reads the class attribute again.
ReturnInstance(t) ==
    /\ thread_pc[t] = "line 22"
    /\ got' = [got EXCEPT ![t] = Append(got[t], instance)]
    /\ thread_pc' = [thread_pc EXCEPT ![t] = "idle"]
    /\ UNCHANGED <<instance, created, fresh>>
    /\ UNCHANGED outside_singleton

SingletonNext ==
    \/ \E t \in Threads : CheckInstance(t)
    \/ \E t \in Threads : Construct(t)
    \/ \E t \in Threads : StoreInstance(t)
    \/ \E t \in Threads : ReturnInstance(t)

SingletonSpec == SingletonInit /\ [][SingletonNext]_vars

\* ------------------------------------------------------------------ C15
\* Every object some call of get_instance has returned.
Returned == UNION { {got[t][k] : k \in 1..Len(got[t])} : t \in Threads }

\* C15: over any interleaving of the callers at most one WebSearcher is
\* created through get_instance and every call returns that same object.
C15_Singleton ==
    /\ created <= 1
    /\ Cardinality(Returned) <= 1

\* What does hold under every interleaving: a call returns a WebSearcher
\* that was constructed, never None.
ReturnsAnInstance == \A x \in Returned : x \in 1..created

\* ============================================================ search_web
\* A result is <<type, position>>; the type tells where it was made:
\* "answer", "abstract" and "related" by search_duckduckgo_api (lines 63-90),
\* "fact" and "result" by scrape_duckduckgo (lines 133-168).
ApiTypes == {"answer", "abstract", "related"}
ScrapedTypes == {"fact", "result"}

\* What the Instant Answer API may do: fail (the request, the status or the
\* JSON raise), or deliver an Answer, an Abstract and related topics.
ApiReplies ==
    {[kind |-> "raise", answer |-> FALSE, abstract |-> FALSE, related |-> 0]}
        \cup [kind : {"data"}, answer : BOOLEAN, abstract : BOOLEAN,
              related : 0..MaxRelated]

\* What the HTML page may do: fail, or show an info box and a number of
\* result elements that have a title and a snippet.
PageReplies ==
    {[kind |-> "raise", info_box |-> FALSE, elements |-> 0]}
        \cup [kind : {"page"}, info_box : BOOLEAN, elements : 0..MaxElements]

\* Both backends have their body in try/except Exception (lines 45/94 and
\* 110/172).
WebGuarded(backend) == TRUE

WebEscapes(backend, reply) == reply.kind = "raise" /\ ~WebGuarded(backend)

\* search_duckduckgo_api, lines 45-96.
ApiResults(reply) ==
    IF reply.kind = "raise" THEN <<>>
    ELSE (IF reply.answer THEN << <<"answer", 1>> >> ELSE <<>>)
         \o (IF reply.abstract THEN << <<"abstract", 1>> >> ELSE <<>>)
         \o [j \in 1..reply.related |-> <<"related", j>>]

\* scrape_duckduckgo, lines 110-174: the info box, then the first
\* num_results result elements.
ScrapedResults(reply, num) ==
    IF reply.kind = "raise" THEN <<>>
    ELSE (IF reply.info_box THEN << <<"fact", 1>> >> ELSE <<>>)
         \o PySlice([j \in 1..reply.elements |-> <<"result", j>>], num)

\* "duckduckgo_results and len(duckduckgo_results) > 1", line 24.
Meaningful(results) == results # <<>> /\ Len(results) > 1

\* Lines 31-32.
ScrapedFirst(api, scraped) == scraped \o api
Combined(api, scraped) == api \o scraped

WebInit ==
    /\ num_results \in 0..MaxNumResults
    /\ web_pc = "api"
    /\ duckduckgo_results = <<>>
    /\ scraped_results = <<>>
    /\ web_result = <<>>
    /\ OutsideWebAtRest

\* Lines 21-25: the API came back; meaningful results are returned.
ApiDone(reply) ==
    LET results == ApiResults(reply) IN
    /\ duckduckgo_results' = results
    /\ IF WebEscapes("api", reply)
       THEN web_pc' = "raised" /\ UNCHANGED web_result
       ELSE IF Meaningful(results)
       THEN web_pc' = "returned" /\ web_result' = PySlice(results, num_results)
       ELSE web_pc' = "scrape" /\ UNCHANGED web_result
    /\ UNCHANGED <<num_results, scraped_results>>
    /\ UNCHANGED outside_web

ApiAnswers ==
    /\ web_pc = "api"
    /\ \E reply \in ApiReplies : reply.kind # "raise" /\ ApiDone(reply)

ApiFails ==
    /\ web_pc = "api"
    /\ \E reply \in ApiReplies : reply.kind = "raise" /\ ApiDone(reply)

\* Lines 28-32: the scraper came back; both lists are combined and cut.
ScrapeDone(reply) ==
    LET results == ScrapedResults(reply, num_results) IN
    /\ scraped_results' = results
    /\ IF WebEscapes("scrape", reply)
       THEN web_pc' = "raised" /\ UNCHANGED web_result
       ELSE /\ web_pc' = "returned"
            /\ web_result' = PySlice(Combined(duckduckgo_results, results),
                                      num_results)
    /\ UNCHANGED <<num_results, duckduckgo_results>>
    /\ UNCHANGED outside_web

ScrapeAnswers ==
    /\ web_pc = "scrape"
    /\ \E reply \in PageReplies : reply.kind # "raise" /\ ScrapeDone(reply)

ScrapeFails ==
    /\ web_pc = "scrape"
    /\ \E reply \in PageReplies : reply.kind = "raise" /\ ScrapeDone(reply)

WebNext ==
    \/ ApiAnswers
    \/ ApiFails
    \/ ScrapeAnswers
    \/ ScrapeFails

WebSpec == WebInit /\ [][WebNext]_vars

\* ------------------------------------------------------------------ C16
\* C16: search_web returns at most num_results results, never raises when a
\* backend fails, and in the returned list every API result comes before
\* every scraped result.
C16_CappedAndApiFirst ==
    /\ web_pc # "raised"
    /\ web_pc = "returned"
           => /\ Len(web_result) <= num_results
              /\ \A a, b \in 1..Len(web_result) :
                     (web_result[a][1] \in ScrapedTypes
                          /\ web_result[b][1] \in ApiTypes) => b < a

\* One API result and scraped results were combined and cut to num_results,
\* and both kinds are in the returned list.
C16_Witness ==
    /\ web_pc = "returned"
    /\ Len(duckduckgo_results) = 1
    /\ Len(duckduckgo_results) + Len(scraped_results) > num_results
    /\ Len(web_result) >= 2
    /\ web_result[1][1] \in ApiTypes
    /\ web_result[2][1] \in ScrapedTypes

\* Both backends failed and the empty list was returned.
C16_BothFailed ==
    /\ web_pc = "returned"
    /\ num_results > 0
    /\ duckduckgo_results = <<>>
    /\ scraped_results = <<>>
    /\ web_result = <<>>

\* ================================= the last resort of reduce_text, alone
\* Lines 201-208 and 224-225 as a function of the text and the budget, on
\* texts of words and blanks long enough for a tenth of the budget to be a
\* character.
CutTexts == UNION { [1..n -> {"w", " "}] : n \in 0..(MaxCutBudget + 1) }

CutInit ==
    /\ cut_text \in CutTexts
    /\ cut_budget \in 1..MaxCutBudget
    /\ cut_pc = "ready"
    /\ cut_branch = "none"
    /\ cut_result = <<>>
    /\ OutsideCutAtRest

\* Lines 201-211: cut_text is the answer of the final call and it fits.
FinalKept ==
    /\ cut_pc = "ready"
    /\ ~(Len(Strip(cut_text)) > cut_budget)
    /\ cut_result' = Strip(cut_text)
    /\ cut_branch' = "kept"
    /\ cut_pc' = "returned"
    /\ UNCHANGED <<cut_text, cut_budget>>
    /\ UNCHANGED outside_cut

\* Lines 201-211: cut_text is the answer of the final call and is too long.
FinalCut ==
    /\ cut_pc = "ready"
    /\ Len(Strip(cut_text)) > cut_budget
    /\ cut_result' = FinalTruncate(Strip(cut_text), cut_budget)
    /\ cut_branch' = "truncated"
    /\ cut_pc' = "returned"
    /\ UNCHANGED <<cut_text, cut_budget>>
    /\ UNCHANGED outside_cut

\* Lines 218-225: the final call raised; cut_text is concatenated_summaries,
\* which is over budget (line 143).
FailureCut ==
    /\ cut_pc = "ready"
    /\ Len(cut_text) > cut_budget
    /\ cut_result' = FinalTruncate(cut_text, cut_budget)
    /\ cut_branch' = "failed"
    /\ cut_pc' = "returned"
    /\ UNCHANGED <<cut_text, cut_budget>>
    /\ UNCHANGED outside_cut

CutNext ==
    \/ FinalKept
    \/ FinalCut
    \/ FailureCut

CutSpec == CutInit /\ [][CutNext]_vars

\* ------------------------------------------------------------------ C20
\* The text the cut was applied to, and what the result keeps of it.
CutSource == IF cut_branch = "failed" THEN cut_text ELSE Strip(cut_text)
CutKept == SubSeq(cut_result, 1, Len(cut_result) - Len(Ellipsis))
CutMade == cut_pc = "returned" /\ cut_branch \in {"truncated", "failed"}

\* The limit of the claim: max_context_size minus the ellipsis reserve.
CutLimit == cut_budget - EllipsisReserve

\* Cutting s after k characters splits a word.
MidWord(s, k) ==
    k >= 1 /\ k < Len(s) /\ ~IsSpace(s[k]) /\ ~IsSpace(s[k + 1])

\* The blanks of s at or before position k that lie within the last 10% of
\* the budget before k.
NearBoundaries(s, k, budget) ==
    {b \in 1..k : IsSpace(s[b]) /\ 10 * (k - b) <= budget}

NearestBoundary(s, k, budget) ==
    CHOOSE b \in NearBoundaries(s, k, budget) :
        \A c \in NearBoundaries(s, k, budget) : c <= b

\* C20 as stated: a text over budget is cut at max_context_size minus the
\* reserve; when that splits a word and a word boundary lies within the last
\* 10% of the budget before it, the cut is made at that boundary instead
\* (before or after its blank); the marker follows.  Stated for budgets from
\* the reserve on.
C20_PrefersWordBoundary ==
    (CutMade /\ cut_budget >= EllipsisReserve)
        => /\ cut_result = CutKept \o Ellipsis
           /\ IF MidWord(CutSource, CutLimit)
                    /\ NearBoundaries(CutSource, CutLimit, cut_budget) # {}
              THEN LET b == NearestBoundary(CutSource, CutLimit, cut_budget)
                   IN  CutKept \in {SubSeq(CutSource, 1, b),
                                    SubSeq(CutSource, 1, b - 1)}
              ELSE CutKept = SubSeq(CutSource, 1, CutLimit)

\* C20 as amended: a text over budget is always cut exactly at
\* max_context_size - 3 characters, whether or not that splits a word, and
\* the marker follows; the bound is a Python slice bound, so under a budget
\* below 3 it is negative and takes 3 - max_context_size characters off the
\* end of the text instead.
C20_CutsExactlyAtReserve ==
    CutMade
        => /\ Len(CutSource) > cut_budget
           /\ cut_result = CutKept \o Ellipsis
           /\ cut_budget >= EllipsisReserve
                  => /\ CutKept = SubSeq(CutSource, 1, CutLimit)
                     /\ Len(cut_result) = cut_budget
           /\ cut_budget < EllipsisReserve
                  => CutKept = SubSeq(CutSource, 1, Len(CutSource) + CutLimit)

\* A cut was made in the middle of a word although a blank lies within the
\* last 10% of the budget before it.
C20_Witness ==
    /\ CutMade
    /\ cut_budget >= EllipsisReserve
    /\ MidWord(CutSource, CutLimit)
    /\ NearBoundaries(CutSource, CutLimit, cut_budget) # {}
    /\ CutKept = SubSeq(CutSource, 1, CutLimit)

\* ========================================================= summarize_text
\* The paragraph separator: a blank line.
ParagraphBreak == <<"\n", "\n">>

\* The pieces of text between occurrences of sep, empty pieces included.
RECURSIVE SplitOn(_, _, _)
SplitOn(text, sep, piece) ==
    IF text = <<>> THEN <<piece>>
    ELSE IF Len(text) >= Len(sep) /\ SubSeq(text, 1, Len(sep)) = sep
    THEN <<piece>> \o SplitOn(SubSeq(text, Len(sep) + 1, Len(text)), sep, <<>>)
    ELSE SplitOn(Tail(text), sep, Append(piece, Head(text)))

NonEmpty(pieces) == SelectSeq(pieces, LAMBDA x : x # <<>>)

\* Chunker step 1: the paragraphs of the text.
Paragraphs(text) == NonEmpty(SplitOn(text, ParagraphBreak, <<>>))

\* Chunker step 3: the whitespace-delimited words of the text.
RECURSIVE WordsFrom(_, _)
WordsFrom(text, word) ==
    IF text = <<>> THEN <<word>>
    ELSE IF IsSpace(Head(text)) THEN <<word>> \o WordsFrom(Tail(text), <<>>)
    ELSE WordsFrom(Tail(text), Append(word, Head(text)))

Words(text) == NonEmpty(WordsFrom(text, <<>>))

\* Chunker step 2: units are added to a buffer; the buffer is emitted when
\* the next unit would take it over max, unless it is empty.
RECURSIVE NeverEmit(_, _, _, _)
NeverEmit(units, buffer, max, joiner) ==
    IF units = <<>> THEN (IF buffer = <<>> THEN <<>> ELSE <<buffer>>)
    ELSE IF buffer = <<>> THEN NeverEmit(Tail(units), Head(units), max, joiner)
    ELSE NeverEmit(Tail(units), buffer \o joiner \o Head(units), max, joiner)

RECURSIVE Accumulate(_, _, _, _)
Accumulate(units, buffer, max, joiner) ==
    IF units = <<>> THEN (IF buffer = <<>> THEN <<>> ELSE <<buffer>>)
    ELSE IF buffer = <<>> THEN Accumulate(Tail(units), Head(units), max, joiner)
    ELSE IF Len(buffer) + Len(joiner) + Len(Head(units)) > max
    THEN <<buffer>> \o Accumulate(Tail(units), Head(units), max, joiner)
    ELSE Accumulate(Tail(units), buffer \o joiner \o Head(units), max, joiner)

\* Chunker step 4: slices of max characters.
RECURSIVE RawSlices(_, _)
RawSlices(text, max) ==
    IF Len(text) <= max THEN (IF text = <<>> THEN <<>> ELSE <<text>>)
    ELSE <<SubSeq(text, 1, max)>> \o RawSlices(SubSeq(text, max + 1, Len(text)), max)

\* chunk(text, max_chunk_size): paragraphs; words when a text over the limit
\* has at most one paragraph; raw slices when one of those words is over
\* the limit.
Chunk(text, max) ==
    IF Len(text) > max /\ Len(Paragraphs(text)) <= 1
    THEN IF \E k \in 1..Len(Words(text)) : Len(Words(text)[k]) > max
         THEN RawSlices(text, max)
         ELSE Accumulate(Words(text), <<>>, max, <<" ">>)
    ELSE Accumulate(Paragraphs(text), <<>>, max, ParagraphBreak)

SourceTexts == UNION { [1..n -> {"w", " ", "\n"}] : n \in 0..MaxSourceLen }

\* level1.py, lines 145-152: summarize_text(text=file_content,
\* target_len=10000, chunk_size=10000, ...): target and chunk size are the
\* same number.
ChunkInit ==
    /\ source_text \in SourceTexts
    /\ chunk_size \in 1..MaxChunkSize
    /\ chunk_pc = "check_fit"
    /\ chunks = <<>>
    /\ passed = <<>>
    /\ OutsideChunkAtRest

\* CHECK_FIT: a text within the target is returned without any call.
ReturnFitting ==
    /\ chunk_pc = "check_fit"
    /\ Len(source_text) <= chunk_size
    /\ chunk_pc' = "returned"
    /\ UNCHANGED <<source_text, chunk_size, chunks, passed>>
    /\ UNCHANGED outside_chunk

\* SPLIT: the Chunker is run on the text with chunk_size as the bound.
SplitText ==
    /\ chunk_pc = "check_fit"
    /\ Len(source_text) > chunk_size
    /\ chunks' = Chunk(source_text, chunk_size)
    /\ chunk_pc' = "summarize_each"
    /\ UNCHANGED <<source_text, chunk_size, passed>>
    /\ UNCHANGED outside_chunk

\* SUMMARIZE_EACH: the next chunk is handed to the summarizer.
PassChunk ==
    /\ chunk_pc = "summarize_each"
    /\ Len(passed) < Len(chunks)
    /\ passed' = Append(passed, chunks[Len(passed) + 1])
    /\ UNCHANGED <<source_text, chunk_size, chunk_pc, chunks>>
    /\ UNCHANGED outside_chunk

\* Every chunk has been summarized.
AllPassed ==
    /\ chunk_pc = "summarize_each"
    /\ Len(passed) = Len(chunks)
    /\ chunk_pc' = "recombine"
    /\ UNCHANGED <<source_text, chunk_size, chunks, passed>>
    /\ UNCHANGED outside_chunk

ChunkNext ==
    \/ ReturnFitting
    \/ SplitText
    \/ PassChunk
    \/ AllPassed

ChunkSpec == ChunkInit /\ [][ChunkNext]_vars

\* ------------------------------------------------------------------ C13
\* One word or byte run: no whitespace inside.
OneWord(unit) == \A k \in 1..Len(unit) : ~IsSpace(unit[k])

\* unit is one of the paragraphs of a text of several paragraphs.
LoneParagraph(unit) ==
    /\ Len(Paragraphs(source_text)) >= 2
    /\ \E k \in 1..Len(Paragraphs(source_text)) :
           Paragraphs(source_text)[k] = unit

Hit(k) == [href |-> <<"u", k>>, title |-> IF k % 2 = 1 THEN <<"t", k>> ELSE <<>>]
Hits(n) == [k \in 1..n |-> Hit(k)]

\* What fetching and cleaning a page comes to: a text, possibly empty, or an
\* exception raised by requests.get, raise_for_status or the parser.
FetchReplies ==
    { [raises |-> FALSE, text |-> t] : t \in {<<>>, <<"page">>} }
        \cup { [raises |-> TRUE, text |-> <<"timeout">>] }

\* Line 251: title or url.
TitleOrUrl(hit) == IF hit.title # <<>> THEN hit.title ELSE hit.href

\* Lines 231-253: the segment of one result; every exception is caught.
extract_content(hit, reply) ==
    IF reply.raises
    THEN <<"\nError extracting content from ">> \o hit.href \o <<": ">>
             \o reply.text \o <<"\n">>
    ELSE <<"\nFrom ">> \o TitleOrUrl(hit) \o <<":\n">> \o reply.text \o <<"\n">>

\* ''.join(contents), line 287.
RECURSIVE Concat(_)
Concat(list) == IF list = <<>> THEN <<>> ELSE Head(list) \o Concat(Tail(list))

\* A variant that takes the futures as they complete.
CompletedAt(k, order) == IF k <= Len(order) THEN order[k] ELSE 0

\* Line 277: `for future in future_to_url` walks the dict in insertion order,
\* which is the order of the submissions of lines 270-273: the k-th future
\* is the one of rank k, whatever has finished so far.
FutureAt(k, order) == k

IsDone(rank) == \E j \in 1..Len(finished) : finished[j] = rank

ParseInit ==
    /\ search_results \in { Hits(n) : n \in 0..MaxHits }
    /\ parse_pc = "start"
    /\ finished = <<>>
    /\ segments = <<>>
    /\ future_k = 0
    /\ contents = <<>>
    /\ parsed_content = <<>>
    /\ OutsideParseAtRest

\* Lines 262-263: nothing was found.
ReturnNoContent ==
    /\ parse_pc = "start"
    /\ search_results = <<>>
    /\ parsed_content' = <<>>
    /\ parse_pc' = "done"
    /\ UNCHANGED <<search_results, finished, segments, future_k, contents>>
    /\ UNCHANGED outside_parse

\* Lines 268-276: one fetch per result is handed to the pool.
SubmitAll ==
    /\ parse_pc = "start"
    /\ search_results # <<>>
    /\ segments' = [k \in 1..Len(search_results) |-> None]
    /\ future_k' = 1
    /\ parse_pc' = "collect"
    /\ UNCHANGED <<search_results, finished, contents, parsed_content>>
    /\ UNCHANGED outside_parse

\* A worker ends extract_content for the result of some rank.
WorkerFinishes(rank, reply) ==
    /\ parse_pc = "collect"
    /\ rank \in 1..Len(search_results)
    /\ ~IsDone(rank)
    /\ segments' = [segments EXCEPT
                       ![rank] = Some(extract_content(search_results[rank], reply))]
    /\ finished' = Append(finished, rank)
    /\ UNCHANGED <<search_results, parse_pc, future_k, contents, parsed_content>>
    /\ UNCHANGED outside_parse

FetchEnds == \E rank \in 1..MaxHits, reply \in FetchReplies : WorkerFinishes(rank, reply)

\* Lines 277-281: future.result() waits for the future the loop is at.
CollectFuture ==
    /\ parse_pc = "collect"
    /\ future_k <= Len(search_results)
    /\ LET rank == FutureAt(future_k, finished)
       IN /\ rank \in 1..Len(search_results)
          /\ IsDone(rank)
          /\ LET content == segments[rank][1]
             IN contents' = IF content # <<>> THEN Append(contents, content)
                            ELSE contents
    /\ future_k' = future_k + 1
    /\ UNCHANGED <<search_results, parse_pc, finished, segments, parsed_content>>
    /\ UNCHANGED outside_parse

\* Lines 285-288.
ReturnParsed ==
    /\ parse_pc = "collect"
    /\ future_k > Len(search_results)
    /\ parsed_content' = Concat(contents)
    /\ parse_pc' = "done"
    /\ UNCHANGED <<search_results, finished, segments, future_k, contents>>
    /\ UNCHANGED outside_parse

ParseNext ==
    \/ ReturnNoContent
    \/ SubmitAll
    \/ FetchEnds
    \/ CollectFuture
    \/ ReturnParsed

ParseSpec == ParseInit /\ [][ParseNext]_vars

\* ------------------------------------------------------------------ C27
\* The segment of the result of rank k: the one extract_content makes of some
\* outcome of fetching that result.
IsSegmentOf(content, k) ==
    \E reply \in FetchReplies : content = extract_content(Hit(k), reply)

Question(k) == [task_id |-> k, question |-> <<"q", k>>]
Dataset(n) == [k \in 1..n |-> Question(k)]

\* Lines 80-81: questions[:max_questions] unless max_questions is None or 0.
LimitQuestions(list, limit) == IF limit # 0 THEN PySlice(list, limit) ELSE list

\* Lines 109-115.
SuccessResult(question_data, answer) ==
    [task_id |-> question_data.task_id, question |-> question_data.question,
     submitted_answer |-> answer, status |-> "success"]

\* Lines 122-128.
ErrorResult(question_data, message) ==
    [task_id |-> question_data.task_id, question |-> question_data.question,
     submitted_answer |-> <<"ERROR: ">> \o message, status |-> "error"]

SubmissionEntry(r) == [task_id |-> r.task_id, submitted_answer |-> r.submitted_answer]

RECURSIVE MapEntries(_)
MapEntries(list) ==
    IF list = <<>> THEN <<>>
    ELSE <<SubmissionEntry(Head(list))>> \o MapEntries(Tail(list))

\* A variant that submits every entry.
EveryAnswer(list) == MapEntries(list)

\* Lines 151-154.
submission_answers(list) ==
    MapEntries(SelectSeq(list, LAMBDA r : r.status = "success"))

DatasetInit ==
    /\ questions \in { Dataset(n) : n \in 0..MaxQuestions }
    /\ max_questions \in 0..MaxQuestions
    /\ dataset_pc = "start"
    /\ question_i = 0
    /\ agent_results = <<>>
    /\ results_file = None
    /\ answers_file = None
    /\ OutsideDatasetAtRest

\* Lines 77-90.
LoadQuestions ==
    /\ dataset_pc = "start"
    /\ questions' = LimitQuestions(questions, max_questions)
    /\ question_i' = 1
    /\ dataset_pc' = "loop"
    /\ UNCHANGED <<max_questions, agent_results, results_file, answers_file>>
    /\ UNCHANGED outside_dataset

\* Lines 99-118 and 130-133: the agent returned an answer.
AgentAnswers ==
    /\ dataset_pc = "loop"
    /\ question_i <= Len(questions)
    /\ \E answer \in { <<>>, <<"a", question_i>> } :
           agent_results' =
               ListAppend(agent_results, SuccessResult(questions[question_i], answer))
    /\ question_i' = question_i + 1
    /\ UNCHANGED <<questions, max_questions, dataset_pc, results_file, answers_file>>
    /\ UNCHANGED outside_dataset

\* Lines 120-133: process_question_with_files or agent.run raised.
AgentRaises ==
    /\ dataset_pc = "loop"
    /\ question_i <= Len(questions)
    /\ agent_results' =
           ListAppend(agent_results, ErrorResult(questions[question_i], <<"boom">>))
    /\ question_i' = question_i + 1
    /\ UNCHANGED <<questions, max_questions, dataset_pc, results_file, answers_file>>
    /\ UNCHANGED outside_dataset

\* Lines 136-157, for either value of save_results.
SaveResults(save_results) ==
    /\ results_file' = IF save_results THEN Some(agent_results) ELSE results_file
    /\ answers_file' = IF save_results THEN Some(submission_answers(agent_results))
                       ELSE answers_file

\* Lines 136-167: the files are written and the list is returned.
ReturnResults ==
    /\ dataset_pc = "loop"
    /\ question_i > Len(questions)
    /\ agent_results # <<>>
    /\ \E save_results \in BOOLEAN : SaveResults(save_results)
    /\ dataset_pc' = "done"
    /\ UNCHANGED <<questions, max_questions, question_i, agent_results>>
    /\ UNCHANGED outside_dataset

\* Lines 136-165: with no question the success rate of line 165 divides by
\* zero, after the files were written.
SummaryRaises ==
    /\ dataset_pc = "loop"
    /\ question_i > Len(questions)
    /\ agent_results = <<>>
    /\ \E save_results \in BOOLEAN : SaveResults(save_results)
    /\ dataset_pc' = "raised"
    /\ UNCHANGED <<questions, max_questions, question_i, agent_results>>
    /\ UNCHANGED outside_dataset

DatasetNext ==
    \/ LoadQuestions
    \/ AgentAnswers
    \/ AgentRaises
    \/ ReturnResults
    \/ SummaryRaises

DatasetSpec == DatasetInit /\ [][DatasetNext]_vars

\* ------------------------------------------------------------------ C26
SuccessesOf(list) == SelectSeq(list, LAMBDA r : r.status = "success")

\* C26: there is exactly one result entry per processed question, in dataset
\* order, whether the agent answered or raised; the run goes through every
\* question whatever failed before; and the submission answers are exactly
\* the entries with status success.
C26_OneEntryPerQuestion ==
    /\ dataset_pc = "loop" => Len(agent_results) = question_i - 1
    /\ dataset_pc \in {"loop", "done", "raised"} =>
           \A k \in 1..Len(agent_results) :
               /\ agent_results[k].task_id = questions[k].task_id
               /\ agent_results[k].status \in {"success", "error"}
    /\ dataset_pc \in {"done", "raised"} => Len(agent_results) = Len(questions)
    /\ answers_file # None =>
           /\ results_file = Some(agent_results)
           /\ Len(answers_file[1]) = Len(SuccessesOf(agent_results))
           /\ \A k \in 1..Len(answers_file[1]) :
                  /\ answers_file[1][k].task_id = SuccessesOf(agent_results)[k].task_id
                  /\ answers_file[1][k].submitted_answer =
                         SuccessesOf(agent_results)[k].submitted_answer

\* Three questions: the first and the last failed, the second was answered,
\* and the files were written.
C26_Witness ==
    /\ dataset_pc = "done"
    /\ Len(agent_results) = 3
    /\ agent_results[1].status = "error"
    /\ agent_results[2].status = "success"
    /\ agent_results[3].status = "error"
    /\ answers_file # None
    /\ Len(answers_file[1]) = 1

\* ====================================================== the tool tracking
\* The tracking state of src/smolagents/initial.py: the module-level
\* tool_usage, execution_times and intermediate_outputs (lines 13-27), the
\* tools that write them through log_tool_start and log_tool_end, and
\* process_query, which resets them.  Two invocations of process_query may
\* overlap; the agent of an invocation calls up to MaxToolCalls tools.

Queries == {1, 2}

ToolNames == {"reformulate_question", "browse_web", "read_file", "summarize"}

\* browse_web (lines 165-253) and read_file (lines 269-379) run inside
\* try/except and call log_tool_end on both paths.  reformulate_question
\* (lines 80-145) and summarize (lines 394-435) call the sub-agent outside
\* any try, so an exception leaves the tool before log_tool_end.
CatchesItsErrors(tool) == tool \in {"browse_web", "read_file"}

\* Lines 511-513.
NoUsage == [tool \in ToolNames |-> 0]
NoTimes == [tool \in ToolNames |-> <<>>]

\* The time a call took, lines 49-50.
Duration == <<"seconds">>

\* Line 53: execution_times[tool_name].append(execution_time).
log_tool_end(times, tool) == [times EXCEPT ![tool] = Append(@, Duration)]

\* Lines 607-617: the counters, and the number of recorded times per tool.
get_performance_stats ==
    [usage |-> tool_usage,
     calls |-> [tool \in ToolNames |-> Len(execution_times[tool])]]

CallsMade(q) == made[q]["reformulate_question"] + made[q]["browse_web"]
                    + made[q]["read_file"] + made[q]["summarize"]

TrackInit ==
    /\ tool_usage = NoUsage
    /\ execution_times = NoTimes
    /\ intermediate_outputs = <<>>
    /\ query_pc = [q \in Queries |-> "idle"]
    /\ tool_call = [q \in Queries |-> None]
    /\ made = [q \in Queries |-> NoUsage]
    /\ stats = [q \in Queries |-> None]
    /\ OutsideTrackAtRest

\* Lines 505-564: process_query resets the tracking and starts the agent.
StartQuery(q) ==
    /\ query_pc[q] = "idle"
    /\ tool_usage' = NoUsage
    /\ execution_times' = NoTimes
    /\ intermediate_outputs' = <<>>
    /\ query_pc' = [query_pc EXCEPT ![q] = "agent"]
    /\ UNCHANGED <<tool_call, made, stats>>
    /\ UNCHANGED outside_track

\* Line 43, first half: the agent calls a tool, and log_tool_start reads
\* tool_usage[tool_name].
LoadUsage(q, tool) ==
    /\ query_pc[q] = "agent"
    /\ CallsMade(q) < MaxToolCalls
    /\ tool_call' = [tool_call EXCEPT ![q] = Some([tool |-> tool, seen |-> tool_usage[tool]])]
    /\ query_pc' = [query_pc EXCEPT ![q] = "log_tool_start"]
    /\ UNCHANGED <<tool_usage, execution_times, intermediate_outputs, made, stats>>
    /\ UNCHANGED outside_track

\* Line 43, second half: the incremented value is stored.
StoreUsage(q) ==
    /\ query_pc[q] = "log_tool_start"
    /\ LET call == tool_call[q][1]
       IN /\ tool_usage' = [tool_usage EXCEPT ![call.tool] = call.seen + 1]
          /\ made' = [made EXCEPT ![q][call.tool] = @ + 1]
    /\ query_pc' = [query_pc EXCEPT ![q] = "tool"]
    /\ UNCHANGED <<execution_times, intermediate_outputs, tool_call, stats>>
    /\ UNCHANGED outside_track

\* The tool ends by a return: its output is stored and log_tool_end is
\* called.  For browse_web and read_file this is also how a failure ends.
ToolReturns(q) ==
    /\ query_pc[q] = "tool"
    /\ LET call == tool_call[q][1]
       IN /\ execution_times' = log_tool_end(execution_times, call.tool)
          /\ intermediate_outputs' = Append(intermediate_outputs, call.tool)
    /\ tool_call' = [tool_call EXCEPT ![q] = None]
    /\ query_pc' = [query_pc EXCEPT ![q] = "agent"]
    /\ UNCHANGED <<tool_usage, made, stats>>
    /\ UNCHANGED outside_track

\* Lines 98-106 and 402-418: the sub-agent of reformulate_question or of
\* summarize raises, and the exception leaves the tool.
ToolRaises(q) ==
    /\ query_pc[q] = "tool"
    /\ ~CatchesItsErrors(tool_call[q][1].tool)
    /\ tool_call' = [tool_call EXCEPT ![q] = None]
    /\ query_pc' = [query_pc EXCEPT ![q] = "agent"]
    /\ UNCHANGED <<tool_usage, execution_times, intermediate_outputs, made, stats>>
    /\ UNCHANGED outside_track

\* Lines 564-597: agent.run returned or raised, process_query returns.
QueryReturns(q) ==
    /\ query_pc[q] = "agent"
    /\ query_pc' = [query_pc EXCEPT ![q] = "returned"]
    /\ UNCHANGED <<tool_usage, execution_times, intermediate_outputs, tool_call,
                   made, stats>>
    /\ UNCHANGED outside_track

\* Lines 599-629, called after process_query as in main (line 648).
ReadStats(q) ==
    /\ query_pc[q] = "returned"
    /\ stats' = [stats EXCEPT ![q] = Some(get_performance_stats)]
    /\ query_pc' = [query_pc EXCEPT ![q] = "reported"]
    /\ UNCHANGED <<tool_usage, execution_times, intermediate_outputs, tool_call, made>>
    /\ UNCHANGED outside_track

TrackNext ==
    \/ \E q \in Queries : StartQuery(q)
    \/ \E q \in Queries, tool \in ToolNames : LoadUsage(q, tool)
    \/ \E q \in Queries : StoreUsage(q)
    \/ \E q \in Queries : ToolReturns(q)
    \/ \E q \in Queries : ToolRaises(q)
    \/ \E q \in Queries : QueryReturns(q)
    \/ \E q \in Queries : ReadStats(q)

TrackSpec == TrackInit /\ [][TrackNext]_vars

\* ------------------------------------------------------------------ C30
\* Invocation 1 of process_query has returned and no other was started.
ReturnedAlone == query_pc[1] \in {"returned", "reported"} /\ query_pc[2] = "idle"

\* C30: after process_query returns, tool_usage[tool] equals the number of
\* execution times recorded in execution_times[tool] for every tool,
\* whatever tools were called and whether they succeeded or raised.
C30_UsageEqualsRecordedTimes ==
    ReturnedAlone =>
        \A tool \in ToolNames : tool_usage[tool] = Len(execution_times[tool])

\* What holds instead: the equality for the two tools that catch their own
\* errors, and no more recorded times than calls for the other two.
UsageCoversRecordedTimes ==
    ReturnedAlone =>
        \A tool \in ToolNames :
            /\ CatchesItsErrors(tool) => tool_usage[tool] = Len(execution_times[tool])
            /\ tool_usage[tool] >= Len(execution_times[tool])

\* ------------------------------------------------------------------ C22
\* C22: an invocation reads and writes only its own state, so that the
\* statistics an invocation gets after it returned are those of the tool
\* calls it made itself, whatever another invocation does meanwhile.
C22_InvocationsIsolated ==
    \A q \in Queries :
        stats[q] # None => stats[q][1].usage = made[q]

\* What holds instead: an invocation that ran with no other one started gets
\* its own statistics.
StatsOwnWhenAlone ==
    (stats[1] # None /\ query_pc[2] = "idle") => stats[1][1].usage = made[1]

\* ==================================================== answer_gaia_questions
\* answer_gaia_questions of src/smolagents/smol_agents_baseline.py, lines
\* 84-270, run several times on one output_dir over a dataset of one level.
\* The disk outlives a run, the memory does not.  A run ends by coming to
\* the end of the loop, by an exception that nothing catches, or because the
\* process is stopped, which can happen anywhere.  open(path, "w") empties
\* the file and json.dump fills it, so a file can be left emptied.

NoFile == [state |-> "absent"]
Emptied == [state |-> "emptied"]
Written(content) == [state |-> "written", content |-> content]

TaskId(k) == <<"task", k>>
Example(k, question) == [task_id |-> TaskId(k), question |-> question]
ExampleLists ==
    UNION { { [k \in 1..n |-> Example(k, IF k \in asked THEN <<"q", k>> ELSE <<>>)] :
                asked \in SUBSET (1..n) } : n \in 0..MaxExamples }

\* Lines 97-107 and 114-115: the completed task ids of the level; a missing
\* file and one json.load cannot read both give none.
LoadCheckpoint(file) == IF file.state = "written" THEN file.content ELSE {}

\* Lines 119-127: likewise for the results of the level.
LoadResults(file) == IF file.state = "written" THEN file.content ELSE <<>>

\* Lines 207-215 and 240-247.
AnswerRecord(example) == [task_id |-> example.task_id, kind |-> "model_answer"]
ErrorRecord(example) == [task_id |-> example.task_id, kind |-> "error"]

example == examples[example_k]

\* The statements of the try block that write a file: lines 219-220,
\* 227-228 and 231-232.
TryWrites ==
    {"answered", "open_checkpoint", "dump_checkpoint", "open_results", "dump_results"}

AnswerInit ==
    /\ examples \in ExampleLists
    /\ checkpoint_file = NoFile
    /\ level_results_file = NoFile
    /\ answer_pc = "stopped"
    /\ completed_tasks = {}
    /\ level_results = <<>>
    /\ example_k = 0
    /\ handling = "try"
    /\ added = 0
    /\ ever_marked = {}
    /\ runs = 0
    /\ OutsideAnswerAtRest

\* Lines 93-131: a run starts and reads what the earlier runs left.
StartRun ==
    /\ answer_pc = "stopped"
    /\ runs < MaxRuns
    /\ runs' = runs + 1
    /\ completed_tasks' = LoadCheckpoint(checkpoint_file)
    /\ level_results' = LoadResults(level_results_file)
    /\ example_k' = 1
    /\ answer_pc' = "loop"
    /\ UNCHANGED <<examples, checkpoint_file, level_results_file, handling, added,
                   ever_marked>>
    /\ UNCHANGED outside_answer

\* Lines 136-141.
SkipCompleted ==
    /\ answer_pc = "loop"
    /\ example_k <= Len(examples)
    /\ example.task_id \in completed_tasks
    /\ example_k' = example_k + 1
    /\ UNCHANGED <<examples, checkpoint_file, level_results_file, answer_pc,
                   completed_tasks, level_results, handling, added, ever_marked, runs>>
    /\ UNCHANGED outside_answer

\* Lines 143-172: an example without a question is passed over.
SkipEmpty ==
    /\ answer_pc = "loop"
    /\ example_k <= Len(examples)
    /\ example.task_id \notin completed_tasks
    /\ example.question = <<>>
    /\ example_k' = example_k + 1
    /\ UNCHANGED <<examples, checkpoint_file, level_results_file, answer_pc,
                   completed_tasks, level_results, handling, added, ever_marked, runs>>
    /\ UNCHANGED outside_answer

Attempted ==
    /\ answer_pc = "loop"
    /\ example_k <= Len(examples)
    /\ example.task_id \notin completed_tasks
    /\ example.question # <<>>

\* Lines 192-215: the agent is run and returns an answer.
AgentReturns ==
    /\ Attempted
    /\ answer_pc' = "answered"
    /\ handling' = "try"
    /\ added' = 0
    /\ UNCHANGED <<examples, checkpoint_file, level_results_file, completed_tasks,
                   level_results, example_k, ever_marked, runs>>
    /\ UNCHANGED outside_answer

\* Lines 192-197 and 237-247: the agent is run and raises.
AgentFails ==
    /\ Attempted
    /\ answer_pc' = "save_error"
    /\ handling' = "except"
    /\ added' = 0
    /\ UNCHANGED <<examples, checkpoint_file, level_results_file, completed_tasks,
                   level_results, example_k, ever_marked, runs>>
    /\ UNCHANGED outside_answer

\* Lines 217-226: <task_id>.json, the record, the mark.
SaveResult ==
    /\ answer_pc = "answered"
    /\ level_results' = Append(level_results, AnswerRecord(example))
    /\ completed_tasks' = completed_tasks \cup {example.task_id}
    /\ added' = added + 1
    /\ answer_pc' = "open_checkpoint"
    /\ UNCHANGED <<examples, checkpoint_file, level_results_file, example_k,
                   handling, ever_marked, runs>>
    /\ UNCHANGED outside_answer

\* Lines 237-257: <task_id>_error.json, the record, the mark.
SaveError ==
    /\ answer_pc = "save_error"
    /\ level_results' = Append(level_results, ErrorRecord(example))
    /\ completed_tasks' = completed_tasks \cup {example.task_id}
    /\ added' = added + 1
    /\ answer_pc' = "open_checkpoint"
    /\ UNCHANGED <<examples, checkpoint_file, level_results_file, example_k,
                   handling, ever_marked, runs>>
    /\ UNCHANGED outside_answer

\* Lines 227 and 258: open(checkpoint_file, "w").
OpenCheckpoint ==
    /\ answer_pc = "open_checkpoint"
    /\ checkpoint_file' = Emptied
    /\ answer_pc' = "dump_checkpoint"
    /\ UNCHANGED <<examples, level_results_file, completed_tasks, level_results,
                   example_k, handling, added, ever_marked, runs>>
    /\ UNCHANGED outside_answer

\* Lines 228 and 259: json.dump(completed_tasks, f) and the close.
DumpCheckpoint ==
    /\ answer_pc = "dump_checkpoint"
    /\ checkpoint_file' = Written(completed_tasks)
    /\ ever_marked' = ever_marked \cup completed_tasks
    /\ answer_pc' = "open_results"
    /\ UNCHANGED <<examples, level_results_file, completed_tasks, level_results,
                   example_k, handling, added, runs>>
    /\ UNCHANGED outside_answer

\* Lines 231 and 261: open(level_results_file, "w").
OpenResults ==
    /\ answer_pc = "open_results"
    /\ level_results_file' = Emptied
    /\ answer_pc' = "dump_results"
    /\ UNCHANGED <<examples, checkpoint_file, completed_tasks, level_results,
                   example_k, handling, added, ever_marked, runs>>
    /\ UNCHANGED outside_answer

\* Lines 232 and 262: json.dump(level_results, f) and the close.
DumpResults ==
    /\ answer_pc = "dump_results"
    /\ level_results_file' = Written(level_results)
    /\ answer_pc' = "sleep"
    /\ UNCHANGED <<examples, checkpoint_file, completed_tasks, level_results,
                   example_k, handling, added, ever_marked, runs>>
    /\ UNCHANGED outside_answer

\* Lines 235 and 265: the iteration ends.
Sleep ==
    /\ answer_pc = "sleep"
    /\ example_k' = example_k + 1
    /\ answer_pc' = "loop"
    /\ UNCHANGED <<examples, checkpoint_file, level_results_file, completed_tasks,
                   level_results, handling, added, ever_marked, runs>>
    /\ UNCHANGED outside_answer

\* Line 237: a write of the try block raises (an answer json cannot encode
\* at line 220, an OSError at any of them) and the except block takes over.
WriteRaises ==
    /\ answer_pc \in TryWrites
    /\ handling = "try"
    /\ handling' = "except"
    /\ answer_pc' = "save_error"
    /\ UNCHANGED <<examples, checkpoint_file, level_results_file, completed_tasks,
                   level_results, example_k, added, ever_marked, runs>>
    /\ UNCHANGED outside_answer

\* The memory of a process that is gone.
Forgotten ==
    /\ completed_tasks' = {}
    /\ level_results' = <<>>
    /\ example_k' = 0
    /\ handling' = "try"
    /\ added' = 0
    /\ answer_pc' = "stopped"

\* The process is stopped where it is, or an exception leaves the function
\* (get_agent at line 192, a write of the except block at lines 251-262).
Stop ==
    /\ answer_pc \notin {"stopped", "off"}
    /\ Forgotten
    /\ UNCHANGED <<examples, checkpoint_file, level_results_file, ever_marked, runs>>
    /\ UNCHANGED outside_answer

\* Lines 268-270: every example was gone through.
FinishRun ==
    /\ answer_pc = "loop"
    /\ example_k > Len(examples)
    /\ Forgotten
    /\ UNCHANGED <<examples, checkpoint_file, level_results_file, ever_marked, runs>>
    /\ UNCHANGED outside_answer

AnswerNext ==
    \/ StartRun
    \/ SkipCompleted
    \/ SkipEmpty
    \/ AgentReturns
    \/ AgentFails
    \/ SaveResult
    \/ SaveError
    \/ OpenCheckpoint
    \/ DumpCheckpoint
    \/ OpenResults
    \/ DumpResults
    \/ Sleep
    \/ WriteRaises
    \/ Stop
    \/ FinishRun

AnswerSpec == AnswerInit /\ [][AnswerNext]_vars

\* ------------------------------------------------------------------ C24
\* C24: over any number of runs on the same output_dir the agent is never
\* run again for a task that an earlier run recorded as complete in
\* checkpoint.json.
C24_CompletedNeverRunAgain ==
    [][(AgentReturns \/ AgentFails) => example.task_id \notin ever_marked]_vars

\* What holds instead: a run never runs the agent for a task recorded in the
\* checkpoint.json it could read when it started, nor for one it has marked
\* itself.
ReadableMarkIsSkipped ==
    [][(AgentReturns \/ AgentFails) => example.task_id \notin completed_tasks]_vars

\* ------------------------------------------------------------------ C25
\* The task of the iteration is recorded in checkpoint.json.
MarkedOnDisk ==
    /\ checkpoint_file.state = "written"
    /\ example.task_id \in checkpoint_file.content

\* C25: an attempted task ends its iteration marked complete in the
\* checkpoint and with exactly one record added to the level results,
\* whether the agent answered or any step of processing it raised.
C25_OneRecordPerAttempt ==
    answer_pc = "sleep" => (MarkedOnDisk /\ added = 1)

\* What holds instead: at the end of an iteration the task is marked and one
\* or two records were added.
MarkedWithOneOrTwoRecords ==
    answer_pc = "sleep" => (MarkedOnDisk /\ added \in {1, 2})

\* ------------------------------------------------------------------ C28
HasRecord(file, task_id) ==
    /\ file.state = "written"
    /\ \E k \in 1..Len(file.content) : file.content[k].task_id = task_id

\* C28: wherever the process may stop, and after any later resume, every
\* task id marked complete in checkpoint.json has a record in the results
\* file of its level.
C28_MarkedTasksHaveRecords ==
    checkpoint_file.state = "written" =>
        \A task_id \in checkpoint_file.content :
            HasRecord(level_results_file, task_id)

\* A later run found a task marked whose record is missing, went through the
\* examples and left it that way.
MarkWithoutRecordSurvivesResume ==
    ~ /\ runs = 2
      /\ answer_pc = "stopped"
      /\ checkpoint_file.state = "written"
      /\ checkpoint_file.content # {}
      /\ level_results_file = NoFile

====
